---------------------------- MODULE Spec2Model ----------------------------
(***************************************************************************)
(* A model of the five-pillar on-page SEO audit of src/app.py: the page    *)
(* fetch with its optional proxy fallback, the parse, the visible-text     *)
(* extraction (which strips elements from the parsed document), the        *)
(* content-type cascade, the five pillar scorers, the weighted aggregation *)
(* and the presentation flow that calls run_audit.                         *)
(*                                                                         *)
(* Scores are counted in half points (Pts(1) = 2) because the HTML pillar  *)
(* awards 0.5; lengths, word counts and byte counts are plain naturals.    *)
(* Strings are TLA+ strings: Len, SubSeq and \o act on them as on Python   *)
(* str.                                                                    *)
(***************************************************************************)
EXTENDS Integers, Sequences, FiniteSets, TLC

VARIABLES
    pc,                     \* position of the presentation flow / run_audit
    scraper_api_key,        \* SCRAPER_API_KEY (module configuration)
    url, primary_kw, lsi_csv, originality_pct_input, psi_key,  \* the form
    page,                   \* the document the target server would serve
    net,                    \* how the network answers during this run
    gets,                   \* GET requests fetch_html has issued, in order
    html,                   \* fetch_html's return value
    soup,                   \* the parsed Document of the run
    parsed,                 \* history: the Document as the parser produced it
    soup_global,            \* the module-level global of the same name
    text, json_ld, ctype,   \* locals of run_audit
    lsi_terms, originality_pct,
    pillars,                \* locals p1..p5 of run_audit, by position
    result,                 \* run_audit's return value
    ui,                     \* what the presentation flow ended in
    call,                   \* one direct call of a scorer / the classifier
    thr                     \* two concurrent runs: per-run locals

vars == << pc, scraper_api_key, url, primary_kw, lsi_csv, originality_pct_input,
           psi_key, page, net, gets, html, soup, parsed, soup_global, text,
           json_ld, ctype, lsi_terms, originality_pct, pillars, result, ui,
           call, thr >>

\* Python's None / a present value, for the optional values of the code
Nothing == << >>
Some(x) == << x >>
IsNone(o) == Len(o) = 0
Val(o) == o[1]

-----------------------------------------------------------------------------
(* Python str operations used by the code.                                 *)

Min(S) == CHOOSE x \in S : \A y \in S : x <= y
Max2(a, b) == IF a >= b THEN a ELSE b
Min2(a, b) == IF a <= b THEN a ELSE b

CharAt(s, i) == SubSeq(s, i, i)

\* p in s
Contains(s, p) ==
    \E i \in 1..(Len(s) - Len(p) + 1) : SubSeq(s, i, i + Len(p) - 1) = p

StartsWith(s, p) == Len(s) >= Len(p) /\ SubSeq(s, 1, Len(p)) = p
EndsWith(s, p) == Len(s) >= Len(p) /\ SubSeq(s, Len(s) - Len(p) + 1, Len(s)) = p

UpperAlpha == "ABCDEFGHIJKLMNOPQRSTUVWXYZ"
LowerAlpha == "abcdefghijklmnopqrstuvwxyz"
Digits == "0123456789"

Chars(s) == { CharAt(s, i) : i \in 1..Len(s) }
UpperSet == Chars(UpperAlpha)
LowerOf ==
    [c \in UpperSet |->
        CharAt(LowerAlpha, CHOOSE i \in 1..Len(UpperAlpha) : CharAt(UpperAlpha, i) = c)]

LowerChar(c) == IF c \in UpperSet THEN LowerOf[c] ELSE c

RECURSIVE Lower(_)
\* str.lower(), by halves
Lower(s) ==
    IF s = "" THEN ""
    ELSE IF Len(s) = 1 THEN LowerChar(s)
    ELSE Lower(SubSeq(s, 1, Len(s) \div 2)) \o Lower(SubSeq(s, Len(s) \div 2 + 1, Len(s)))

IsSpace(c) == c = " "

RECURSIVE LStrip(_)
LStrip(s) == IF s # "" /\ IsSpace(CharAt(s, 1)) THEN LStrip(SubSeq(s, 2, Len(s))) ELSE s
RECURSIVE RStrip(_)
RStrip(s) == IF s # "" /\ IsSpace(CharAt(s, Len(s))) THEN RStrip(SubSeq(s, 1, Len(s) - 1)) ELSE s
\* str.strip()
Strip(s) == RStrip(LStrip(s))

RECURSIVE RemoveAll(_, _)
\* s.replace(p, "")
RemoveAll(s, p) ==
    IF ~Contains(s, p) THEN s
    ELSE LET i == Min({ k \in 1..(Len(s) - Len(p) + 1) : SubSeq(s, k, k + Len(p) - 1) = p })
         IN  SubSeq(s, 1, i - 1) \o RemoveAll(SubSeq(s, i + Len(p), Len(s)), p)

\* the first index >= from of a character of cs, Len(s)+1 when there is none
FirstOf(s, cs, from) ==
    LET hits == { i \in from..Len(s) : CharAt(s, i) \in cs }
    IN  IF hits = {} THEN Len(s) + 1 ELSE Min(hits)

RECURSIVE Split(_, _)
\* s.split(sep) for a one-character sep
Split(s, sep) ==
    LET i == FirstOf(s, {sep}, 1)
    IN  IF i > Len(s) THEN << s >>
        ELSE << SubSeq(s, 1, i - 1) >> \o Split(SubSeq(s, i + 1, Len(s)), sep)

DigitSet == Chars(Digits)
AlnumSet == Chars(Digits) \cup Chars(LowerAlpha)
IsDigit(c) == c \in DigitSet
DigitVal(c) == (CHOOSE i \in 1..Len(Digits) : CharAt(Digits, i) = c) - 1
\* [a-z0-9]
IsAlnum(c) == c \in AlnumSet
\* \w of the regular expressions, on lower-cased input
IsWordChar(c) == IsAlnum(c) \/ c = "_"

RECURSIVE DecimalValue(_, _)
DecimalValue(s, acc) ==
    IF s = "" THEN acc ELSE DecimalValue(SubSeq(s, 2, Len(s)), 10 * acc + DigitVal(CharAt(s, 1)))

\* float(s) for the strings the form is given here (runs of digits, words,
\* the empty string): a run of digits is its value, anything else raises
\* ValueError (Nothing)
ParseFloat(s) ==
    IF s # "" /\ \A i \in 1..Len(s) : IsDigit(CharAt(s, i)) THEN Some(DecimalValue(s, 0))
    ELSE Nothing

-----------------------------------------------------------------------------
(* urllib.parse on URLs that carry a scheme (the form rejects the others).  *)

SchemeSep == "://"

HasScheme(u) == Contains(u, SchemeSep)

AfterScheme(u) ==
    LET i == Min({ k \in 1..(Len(u) - 2) : SubSeq(u, k, k + 2) = SchemeSep })
    IN  SubSeq(u, i + 3, Len(u))

\* urlparse(u).netloc
Netloc(u) ==
    IF ~HasScheme(u) THEN ""
    ELSE LET r == AfterScheme(u) IN SubSeq(r, 1, FirstOf(r, {"/", "?", "#"}, 1) - 1)

\* urlparse(u).path
UrlPath(u) ==
    IF ~HasScheme(u) THEN SubSeq(u, 1, FirstOf(u, {"?", "#"}, 1) - 1)
    ELSE LET r == AfterScheme(u)
             a == FirstOf(r, {"/", "?", "#"}, 1)
             b == FirstOf(r, {"?", "#"}, 1)
         IN  SubSeq(r, a, b - 1)

\* urlparse(urljoin(base, href)).netloc
JoinedNetloc(base, href) == IF HasScheme(href) THEN Netloc(href) ELSE Netloc(base)

\* the maximal runs of [a-z0-9] of l
Runs(l) ==
    { SubSeq(l, i, Min({ j \in i..Len(l) : j = Len(l) \/ ~IsAlnum(CharAt(l, j + 1)) })) :
        i \in { k \in 1..Len(l) :
                  IsAlnum(CharAt(l, k)) /\ (k = 1 \/ ~IsAlnum(CharAt(l, k - 1))) } }

\* tokens(s): re.findall(r"[a-z0-9]+", s.lower())
tokens(s) == Runs(Lower(s))

url_slug_keywords(u, kw) == Cardinality(tokens(UrlPath(u)) \cap tokens(kw))

-----------------------------------------------------------------------------
(* The parsed Document.  A Document is a record:                           *)
(*   title      the <title> text ("" when there is none)                   *)
(*   meta_desc  the content of <meta name=description>, Nothing when absent *)
(*   viewport   the content of <meta name=viewport>, Nothing when absent    *)
(*   h1, h2h3   the texts of the h1 / of the h2 and h3 elements            *)
(*   h4         the number of h4 elements                                  *)
(*   article    whether there is an <article> element                      *)
(*   strip      the script, style, noscript, nav, footer and aside         *)
(*              elements, in document order (see Elem)                     *)
(*   imgs       the <img> elements: [src, alt, dims]                       *)
(*   anchors    the href of every <a href>                                 *)
(*   canonical  Nothing, or the href of <link rel=canonical>               *)
(*   css        the href of every <link rel=stylesheet href>               *)
(*   ctas       the number of button/a/input elements that are <button> or *)
(*              carry a class containing "btn"                             *)
(*   inline_spacing  whether an attribute of a kept element matches the    *)
(*              spacing pattern gap-|padding|margin|px;|rem;               *)
(*   body_style the style attribute of <body>                              *)
(*   popup      whether role=dialog or a modal/popup/overlay class occurs  *)
(*   main       the text of the kept elements (see TextOf)                 *)
(* The pages enumerated keep headings, images, anchors and buttons outside *)
(* the stripped containers.                                                *)

StripTags1 == {"script", "style", "noscript"}
StripTags2 == {"nav", "footer", "aside"}

\* an element of Document.strip: tag; for a script its type (ld: it is
\* application/ld+json), whether it has a src, the length of its text and what
\* json.loads makes of it (valid, and the items it holds: a list's members, or
\* the one value); for a style whether it holds a spacing hint; for nav,
\* footer and aside the number of words in it
Elem(tag, ld, src, bytes, valid, items, spacing, wc) ==
    [tag |-> tag, ld |-> ld, src |-> src, bytes |-> bytes, valid |-> valid,
     items |-> items, spacing |-> spacing, wc |-> wc]

\* a JSON value inside a JSON-LD block: a dict with its "@type" values (one
\* for a string, several for a list, none when the key is missing), or not a dict
JItem(dict, types) == [dict |-> dict, types |-> types]

LdScript(valid, items) == Elem("script", TRUE, FALSE, 40, valid, items, FALSE, 0)
JsInline(bytes) == Elem("script", FALSE, FALSE, bytes, FALSE, << >>, FALSE, 0)
JsExternal == Elem("script", FALSE, TRUE, 0, FALSE, << >>, FALSE, 0)
StyleElem(spacing) == Elem("style", FALSE, FALSE, 0, FALSE, << >>, spacing, 0)
Boiler(tag, wc) == Elem(tag, FALSE, FALSE, 0, FALSE, << >>, FALSE, wc)

SelectElems(d, tags) == SelectSeq(d.strip, LAMBDA e : e.tag \in tags)

\* soup.find_all(tag) for the strippable tags
find_all(d, tag) == SelectElems(d, {tag})

RECURSIVE SumWc(_)
SumWc(es) == IF es = << >> THEN 0 ELSE Head(es).wc + SumWc(Tail(es))

RECURSIVE SumBytes(_)
SumBytes(es) == IF es = << >> THEN 0 ELSE Head(es).bytes + SumBytes(Tail(es))

\* t.decompose() for every t in soup(tags)
Decompose(d, tags) == [d EXCEPT !.strip = SelectSeq(d.strip, LAMBDA e : e.tag \notin tags)]

RECURSIVE FlattenItems(_)
FlattenItems(es) ==
    IF es = << >> THEN << >>
    ELSE (IF Head(es).valid THEN Head(es).items ELSE << >>) \o FlattenItems(Tail(es))

\* try_get_json_ld(soup): the items of every parseable
\* <script type=application/ld+json> still in the Document
try_get_json_ld(d) ==
    FlattenItems(SelectSeq(find_all(d, "script"), LAMBDA e : e.ld))

\* soup.get_text(...) after whitespace normalisation, as the features the
\* scorers read from it:
\*   wc, sentences, syllables   the counts of \b\w+\b words, of non-empty
\*                              [.!?]-separated sentences and of vowel groups
\*   kwOcc      the number of occurrences of Keyword (any case)
\*   intro      the first 100 words;  head: the first 600 characters
\*   phrases    the lower-cased phrases and related terms that occur in it
\* The words of nav, footer and aside elements that are still in the Document
\* are part of the text.
TextOf(d) == [d.main EXCEPT !.wc = @ + SumWc(d.strip)]

\* visible_text(soup): strips the Document in place and returns its text
visible_text(d) ==
    LET d1 == Decompose(d, StripTags1)
        d2 == Decompose(d1, StripTags2)
    IN  [soup |-> d2, text |-> TextOf(d2)]

count_words(t) == t.wc

\* round(n / d) for n >= 0, d > 0: Python 3 rounds halves to even
RoundDiv(n, d) ==
    LET q == n \div d
        r == n % d
    IN  IF 2 * r > d \/ (2 * r = d /\ q % 2 = 1) THEN q + 1 ELSE q

\* round(x, 2) of x = n / 10000, in hundredths (n may be negative)
Round2(n) ==
    LET q == n \div 100
        r == n % 100
    IN  IF r > 50 \/ (r = 50 /\ q % 2 # 0) THEN q + 1 ELSE q

\* flesch_reading_ease(text), in hundredths.  The averages asl and asw are
\* carried to one decimal place.
flesch_reading_ease(t) ==
    IF t.wc = 0 \/ t.sentences = 0 THEN 0
    ELSE LET asl10 == (10 * t.wc) \div Max2(1, t.sentences)
             asw10 == (10 * t.syllables) \div Max2(1, t.wc)
         IN  Round2(2068350 - 1015 * asl10 - 84600 * asw10)

-----------------------------------------------------------------------------
(* detect_content_type                                                     *)

\* a pricing rule without the word boundary: "/pricing" or "/price" anywhere
PricingSubstring(u) == Contains(u, "/pricing") \/ Contains(u, "/price")

\* re.search(r"/(pricing|price)\b", u)
PricingMatch(u) ==
    \E p \in {"/pricing", "/price"} :
        \E i \in 1..(Len(u) - Len(p) + 1) :
            /\ SubSeq(u, i, i + Len(p) - 1) = p
            /\ (i + Len(p) - 1 = Len(u) \/ ~IsWordChar(CharAt(u, i + Len(p))))

RECURSIVE LdTypes(_)
\* the @type values of the dict items, in order
LdTypes(items) ==
    IF items = << >> THEN << >>
    ELSE (IF Head(items).dict THEN Head(items).types ELSE << >>) \o LdTypes(Tail(items))

InSeq(x, s) == \E i \in 1..Len(s) : s[i] = x

HomePaths == {"", "/", "/home", "/index.html"}

\* a classifier that reads the structured data before the URL
DetectStructuredDataFirst(u0, d, t, jl) ==
    LET u == Lower(u0)
        types == LdTypes(jl)
    IN  IF InSeq("Product", types) THEN "Product Page"
        ELSE IF InSeq("FAQPage", types) THEN "FAQ Page"
        ELSE IF Contains(u, "/blog/") \/ Contains(u, "/article") THEN "Blog Post"
        ELSE IF Contains(u, "/product") \/ Contains(u, "/shop/") THEN "Product Page"
        ELSE IF Contains(u, "/services") \/ Contains(u, "/service") THEN "Service Page"
        ELSE IF Contains(u, "/faq") THEN "FAQ Page"
        ELSE "Landing Page"

\* a classifier with a rule for the NewsArticle type
DetectNewsByType(u0, d, t, jl) ==
    LET u == Lower(u0)
        types == LdTypes(jl)
        wc == count_words(t)
        h2h3 == Len(d.h2h3)
    IN  IF Contains(u, "/blog/") \/ Contains(u, "/article") THEN "Blog Post"
        ELSE IF Contains(u, "/product") \/ Contains(u, "/shop/") THEN "Product Page"
        ELSE IF Contains(u, "/services") \/ Contains(u, "/service")
                \/ Contains(Lower(t.head), "solutions") THEN "Service Page"
        ELSE IF Contains(u, "/faq") THEN "FAQ Page"
        ELSE IF PricingMatch(u) THEN "Landing Page"
        ELSE IF InSeq("Product", types) THEN "Product Page"
        ELSE IF InSeq("FAQPage", types) THEN "FAQ Page"
        ELSE IF InSeq("NewsArticle", types) THEN "News Article"
        ELSE IF InSeq("Article", types) \/ InSeq("BlogPosting", types) \/ d.article
             THEN (IF wc >= 2000 /\ h2h3 >= 6 THEN "Pillar Page" ELSE "Blog Post")
        ELSE IF wc >= 2200 /\ h2h3 >= 6 THEN "Pillar Page"
        ELSE IF Len(d.h1) = 1 /\ "get a quote" \in t.phrases THEN "Service Page"
        ELSE IF UrlPath(u0) \in HomePaths THEN "Home Page"
        ELSE "Landing Page"

detect_content_type(u0, d, t, jl) ==
    LET u == Lower(u0)
        types == LdTypes(jl)
        wc == count_words(t)
        h2h3 == Len(d.h2h3)
    IN  IF Contains(u, "/blog/") \/ Contains(u, "/article") THEN "Blog Post"
        ELSE IF Contains(u, "/product") \/ Contains(u, "/shop/") THEN "Product Page"
        ELSE IF Contains(u, "/services") \/ Contains(u, "/service")
                \/ Contains(Lower(t.head), "solutions") THEN "Service Page"
        ELSE IF Contains(u, "/faq") THEN "FAQ Page"
        ELSE IF PricingMatch(u) THEN "Landing Page"
        ELSE IF InSeq("Product", types) THEN "Product Page"
        ELSE IF InSeq("FAQPage", types) THEN "FAQ Page"
        ELSE IF InSeq("Article", types) \/ InSeq("BlogPosting", types) \/ d.article
             THEN (IF wc >= 2000 /\ h2h3 >= 6 THEN "Pillar Page" ELSE "Blog Post")
        ELSE IF wc >= 2200 /\ h2h3 >= 6 THEN "Pillar Page"
        ELSE IF Len(d.h1) = 1 /\ "get a quote" \in t.phrases THEN "Service Page"
        ELSE IF UrlPath(u0) \in HomePaths THEN "Home Page"
        ELSE "Landing Page"

-----------------------------------------------------------------------------
(* Pillar results.  A result is [score, available, details]: score and     *)
(* available in half points, details the label -> observation map (the     *)
(* score labels and the mode labels; the suggestion list is display text   *)
(* only and is not carried).                                               *)

Pts(n) == 2 * n
HalfPt == Pts(1) \div 2

NoDetails == [k \in {} |-> ""]
Put(details, k, v) == [x \in (DOMAIN details) \cup {k} |-> IF x = k THEN v ELSE details[x]]

\* f"{n} / {m}" for the labels the scorers write
Label(n, m) == CharAt(Digits, n + 1) \o " / " \o CharAt(Digits, m + 1)

ContentTypes == {"Blog Post", "Pillar Page", "Product Page", "Service Page",
                 "FAQ Page", "Landing Page", "Home Page", "News Article"}

-----------------------------------------------------------------------------
(* score_content_pillar                                                    *)

ideal_wc(ct) ==
    CASE ct = "Blog Post"    -> << 1200, 2000 >>
      [] ct = "Pillar Page"  -> << 2000, 4000 >>
      [] ct = "Product Page" -> << 500, 800 >>
      [] ct = "Service Page" -> << 700, 1200 >>
      [] ct = "FAQ Page"     -> << 300, 700 >>
      [] ct = "Landing Page" -> << 400, 900 >>
      [] ct = "Home Page"    -> << 400, 1200 >>
      [] ct = "News Article" -> << 600, 1000 >>
      [] OTHER               -> << 600, 1500 >>

\* wc <= high * 1.15 as line 201 computes it.  1.15 is the double
\* 1.15 - (4/5) * 2^-53, so high * 1.15 is 115 * high / 100 less
\* 4 * high / (5 * 2^53) before rounding.  A word count that is not exactly
\* 115 * high / 100 is at least 1/100 away from the product and compares as
\* in exact arithmetic; one that is exactly 115 * high / 100 is reached only if
\* the product rounds up to it, which is when the deficit is at most half the
\* spacing 2^(E - 52) of the doubles below wc, 2^E the largest power of two
\* not above wc (a tie goes to wc, whose significand is even; wc is never a
\* power of two here as 23 does not divide one).
WithinUpperBand(high, wc) ==
    IF 100 * wc # 115 * high THEN 100 * wc < 115 * high
    ELSE LET p == CHOOSE q \in { 2^k : k \in 0..20 } : q <= wc /\ wc < 2 * q
         IN  4 * high <= 5 * p

\* low * 0.85 <= wc as line 201 computes it.  0.85 is the double
\* 0.85 - (1/5) * 2^-53; the product is below 85 * low / 100 by less than any
\* rounding can recover when 100 * wc < 85 * low, and rounds to at most wc
\* otherwise, so the comparison is that of exact arithmetic.
WithinLowerBand(low, wc) == 85 * low <= 100 * wc

\* the word-count sub-score, in points
WordCountPoints(ct, wc) ==
    LET low == ideal_wc(ct)[1]
        high == ideal_wc(ct)[2]
    IN  IF low <= wc /\ wc <= high THEN 3
        ELSE IF WithinLowerBand(low, wc) /\ WithinUpperBand(high, wc) THEN 2
        ELSE 0

\* density_ranges, in tenths of a percent
density_ranges(ct) ==
    CASE ct = "Blog Post"    -> << 10, 25 >>
      [] ct = "Pillar Page"  -> << 8, 15 >>
      [] ct = "Product Page" -> << 15, 30 >>
      [] ct = "Service Page" -> << 10, 20 >>
      [] ct = "Landing Page" -> << 5, 12 >>
      [] ct = "FAQ Page"     -> << 8, 15 >>
      [] ct = "Home Page"    -> << 8, 18 >>
      [] ct = "News Article" -> << 8, 18 >>
      [] OTHER               -> << 8, 20 >>

Keyword == "garden tools"

\* len(re.findall(re.escape(kw), text, flags=re.I)): the pages enumerated
\* hold no other keyword than Keyword
Occurrences(kw, t) == IF Lower(kw) = Keyword THEN t.kwOcc ELSE 0

\* dens as the fraction n / d, in tenths of a percent
Density(kw, t) ==
    IF kw # "" /\ count_words(t) > 0
    THEN [n |-> Occurrences(kw, t) * 1000, d |-> count_words(t)]
    ELSE [n |-> 0, d |-> 1]

DensityPoints(ct, dens) ==
    LET lo == density_ranges(ct)[1]
        hi == density_ranges(ct)[2]
    IN  IF lo * dens.d <= dens.n /\ dens.n <= hi * dens.d THEN 3
        ELSE IF (lo - 2) * dens.d <= dens.n /\ dens.n <= (hi + 2) * dens.d THEN 2
        ELSE 0

AnyContains(strs, kw) == \E i \in 1..Len(strs) : Contains(Lower(strs[i]), Lower(kw))

\* the five placement checks; the title, meta description and headings are
\* read from the Document sg that the global soup_global holds
TitleHit(kw, sg) == Contains(Lower(sg.title), Lower(kw))
MetaHit(kw, sg) == ~IsNone(sg.meta_desc) /\ Contains(Lower(Val(sg.meta_desc)), Lower(kw))
IntroHit(kw, t) == Contains(Lower(t.intro), Lower(kw))
H1Hit(kw, sg) == AnyContains(sg.h1, kw)
H2H3Hit(kw, sg) == AnyContains(sg.h2h3, kw)

B2N(b) == IF b THEN 1 ELSE 0

PlacementPoints(kw, t, sgTitle, sgMeta, sgH1, sgH2H3) ==
    IF kw # ""
    THEN B2N(TitleHit(kw, sgTitle)) + B2N(MetaHit(kw, sgMeta)) + B2N(IntroHit(kw, t))
         + B2N(H1Hit(kw, sgH1)) + B2N(H2H3Hit(kw, sgH2H3))
    ELSE 0

lsi_ratio(ct) ==
    CASE ct = "Blog Post"    -> 400
      [] ct = "Pillar Page"  -> 300
      [] ct = "Product Page" -> 400
      [] ct = "Service Page" -> 400
      [] ct = "FAQ Page"     -> 350
      [] ct = "Landing Page" -> 500
      [] ct = "Home Page"    -> 450
      [] ct = "News Article" -> 400
      [] OTHER               -> 400

\* [t.strip() for t in terms if t.strip()]
StripTerms(terms) ==
    LET stripped == [i \in 1..Len(terms) |-> Strip(terms[i])]
    IN  SelectSeq(stripped, LAMBDA x : x # "")

\* sum(1 for t in terms if re.search(re.escape(t), text, flags=re.I))
LsiHits(terms, t) == Cardinality({ i \in 1..Len(terms) : Lower(terms[i]) \in t.phrases })

LsiTarget(ct, wc) == Max2(1, RoundDiv(wc, lsi_ratio(ct)))

\* coverage >= 1.0 -> 3, coverage >= 0.7 -> 2, else 0, with coverage = hits/target
LsiPoints(ct, terms, t) ==
    IF terms # << >>
    THEN LET hits == LsiHits(terms, t)
             ideal_terms == LsiTarget(ct, count_words(t))
         IN  IF hits >= ideal_terms THEN 3
             ELSE IF 10 * hits >= 7 * ideal_terms THEN 2
             ELSE 0
    ELSE 0

thresholds(ct) ==
    CASE ct = "Blog Post"    -> 60
      [] ct = "Pillar Page"  -> 55
      [] ct = "Product Page" -> 65
      [] ct = "Service Page" -> 60
      [] ct = "FAQ Page"     -> 70
      [] ct = "Landing Page" -> 65
      [] ct = "Home Page"    -> 60
      [] ct = "News Article" -> 60
      [] OTHER               -> 60

ReadabilityPoints(ct, fre) ==
    LET th == thresholds(ct)
    IN  IF fre >= 100 * th THEN 3
        ELSE IF fre >= 100 * (th - 10) THEN 2
        ELSE 0

OriginalityPoints(pct) == IF pct >= 95 THEN 3 ELSE IF pct >= 85 THEN 2 ELSE 0

\* an originality block that takes 3 from the maximum without having added it
OriginalityAvailableUncounted(available, originality) ==
    IF IsNone(originality) THEN available - Pts(3) ELSE available + Pts(3)

\* an originality block that never excludes the sub-score
OriginalityAvailableKept(available, originality) == available + Pts(3)

\* an originality block that adds nothing to the maximum
OriginalityAvailableOmitted(available, originality) == available

\* available after the originality block: 3 is added, and taken back when no
\* percentage was supplied
OriginalityAvailable(available, originality) ==
    IF IsNone(originality) THEN (available + Pts(3)) - Pts(3) ELSE available + Pts(3)

\* score_content_pillar with the Documents its reads of soup_global return:
\* line 245 (h1), line 246 (h2/h3), line 249 (title), line 251 (meta
\* description)
ContentPillar(content_type, t, primary_kw0, lsi_terms0, originality, sgH1, sgH2H3, sgTitle, sgMeta) ==
    LET wc == count_words(t)
        wcP == WordCountPoints(content_type, wc)
        s1 == Pts(wcP)
        a1 == Pts(3)
        d1 == Put(NoDetails, "Word Count Score", Label(wcP, 3))
        kw == Strip(primary_kw0)
        dP == DensityPoints(content_type, Density(kw, t))
        s2 == s1 + Pts(dP)
        a2 == a1 + Pts(3)
        d2 == Put(d1, "Keyword Density Score", Label(dP, 3))
        pP == PlacementPoints(kw, t, sgTitle, sgMeta, sgH1, sgH2H3)
        s3 == s2 + Pts(pP)
        a3 == a2 + Pts(5)
        d3 == Put(d2, "Keyword Placement Score", Label(pP, 5))
        terms == StripTerms(lsi_terms0)
        lP == LsiPoints(content_type, terms, t)
        s4 == s3 + Pts(lP)
        a4 == a3 + Pts(3)
        d4 == Put(IF terms # << >> THEN d3
                  ELSE Put(d3, "LSI Target", "N/A (no terms provided)"),
                  "LSI Score", Label(lP, 3))
        rP == ReadabilityPoints(content_type, flesch_reading_ease(t))
        s5 == s4 + Pts(rP)
        a5 == a4 + Pts(3)
        d5 == Put(d4, "Readability Score", Label(rP, 3))
        oP == IF IsNone(originality) THEN 0 ELSE OriginalityPoints(Val(originality))
        s6 == s5 + Pts(oP)
        a6 == OriginalityAvailable(a5, originality)
        d6 == Put(d5, "Originality Score",
                  IF IsNone(originality) THEN "Excluded (no % provided)" ELSE Label(oP, 3))
    IN  [score |-> s6, available |-> a6, details |-> d6]

\* score_content_pillar when soup_global does not change during the call
score_content_pillar(content_type, t, primary_kw0, lsi_terms0, originality, sg) ==
    ContentPillar(content_type, t, primary_kw0, lsi_terms0, originality, sg, sg, sg, sg)

-----------------------------------------------------------------------------
(* score_html_pillar                                                       *)

\* the half points and the label for a length given its full and half bands
TitlePoints2(tl) ==
    IF tl <= 60 /\ tl >= 10 THEN Pts(1)
    ELSE IF (61 <= tl /\ tl <= 65) \/ (8 <= tl /\ tl < 10) THEN HalfPt
    ELSE 0

MetaPoints2(ml) ==
    IF 150 <= ml /\ ml <= 160 THEN Pts(1)
    ELSE IF 140 <= ml /\ ml <= 170 THEN HalfPt
    ELSE 0

HalfLabel(p2) == IF p2 = Pts(1) THEN "1 / 1" ELSE IF p2 = HalfPt THEN "0.5 / 1" ELSE "0 / 1"

H1Points(n) == IF n = 1 THEN 2 ELSE IF n > 1 THEN 1 ELSE 0

need_map(ct) ==
    CASE ct = "Blog Post"    -> 2
      [] ct = "Pillar Page"  -> 5
      [] ct = "Product Page" -> 1
      [] ct = "Service Page" -> 2
      [] ct = "FAQ Page"     -> 3
      [] ct = "Landing Page" -> 1
      [] ct = "Home Page"    -> 2
      [] ct = "News Article" -> 2
      [] OTHER               -> 2

H2PlusPoints(ct, h2plus) ==
    LET needed == need_map(ct)
    IN  IF h2plus >= needed THEN 2
        ELSE IF h2plus = Max2(0, needed - 1) THEN 1
        ELSE 0

\* pct(numerator, denominator), in hundredths of a percent
pct(numerator, denominator) ==
    IF denominator <= 0 THEN 0 ELSE RoundDiv(10000 * numerator, denominator)

AltCoverage(imgs) ==
    IF imgs # << >>
    THEN pct(Cardinality({ i \in 1..Len(imgs) : imgs[i].alt }), Len(imgs))
    ELSE 10000

AltPoints(coverage) == IF coverage >= 9000 THEN 2 ELSE IF coverage >= 7000 THEN 1 ELSE 0

target_schema(ct) ==
    CASE ct = "Blog Post"    -> {"Article", "BlogPosting"}
      [] ct = "Pillar Page"  -> {"Article", "WebPage"}
      [] ct = "Product Page" -> {"Product"}
      [] ct = "Service Page" -> {"Service", "LocalBusiness", "Organization"}
      [] ct = "FAQ Page"     -> {"FAQPage"}
      [] ct = "Landing Page" -> {"WebPage"}
      [] ct = "Home Page"    -> {"WebPage", "Organization"}
      [] ct = "News Article" -> {"NewsArticle", "Article"}
      [] OTHER               -> {"WebPage"}

\* 2 when a found @type is expected for the content type, 1 when some other
\* @type was found, 0 when none was found in the Document
SchemaPoints(ct, d) ==
    LET found_types == LdTypes(try_get_json_ld(d))
    IN  IF \E i \in 1..Len(found_types) : found_types[i] \in target_schema(ct) THEN 2
        ELSE IF found_types # << >> THEN 1
        ELSE 0

score_html_pillar(d, content_type) ==
    LET tP == TitlePoints2(Len(Strip(d.title)))
        mP == MetaPoints2(IF IsNone(d.meta_desc) THEN 0 ELSE Len(Strip(Val(d.meta_desc))))
        hP == H1Points(Len(d.h1))
        sP == H2PlusPoints(content_type, Len(d.h2h3) + d.h4)
        aP == AltPoints(AltCoverage(d.imgs))
        cP == SchemaPoints(content_type, d)
        details == Put(Put(Put(Put(Put(Put(NoDetails,
                     "Title Score", HalfLabel(tP)),
                     "Meta Description Score", HalfLabel(mP)),
                     "H1 Score", Label(hP, 2)),
                     "H2+ Score", Label(sP, 2)),
                     "Alt Score", Label(aP, 2)),
                     "Schema Score", Label(cP, 2))
    IN  [score |-> tP + mP + Pts(hP) + Pts(sP) + Pts(aP) + Pts(cP),
         available |-> Pts(10),
         details |-> details]

-----------------------------------------------------------------------------
(* The network, as it answers during one run.  net is a record:            *)
(*   direct, proxy   the answer to the direct GET and to the proxy GET:    *)
(*                   "200", "500" or "exc" (the request raised)            *)
(*   head            href -> "ok", "404" or "exc": the answer to a HEAD    *)
(*                   request for an anchor                                 *)
(*   img             src -> Nothing (the probe failed, returned >= 400 or  *)
(*                   carried no usable content-length) or the size in KB   *)
(*   css             href -> [ok, media, font16]: status 200, and whether  *)
(*                   the stylesheet matches the @media / the font-size     *)
(*                   pattern                                               *)
(*   psi             Nothing (the metrics call raised or was not 200) or   *)
(*                   [lcp, cls, tbt, interactive], each optional: LCP in   *)
(*                   ms, CLS in thousandths, TBT and interactive in ms     *)

\* a probe that counts a status >= 400 only, not an unreachable resource
BrokenByStatus(out) == out = "404"

\* fetch_resource_head(full) is None or a response with status >= 400
Broken(out) == out # "ok"

-----------------------------------------------------------------------------
(* score_url_links_pillar                                                  *)

UrlChars(u) == Len(RemoveAll(RemoveAll(u, "https://"), "http://"))

UrlLengthPoints(n) ==
    IF 30 <= n /\ n <= 65 THEN 2
    ELSE IF (25 <= n /\ n < 30) \/ (66 <= n /\ n <= 75) THEN 1
    ELSE 0

KeywordsInUrl(u, kw) == IF kw # "" THEN url_slug_keywords(u, kw) ELSE 0

Skipped(href) == StartsWith(href, "#") \/ StartsWith(Lower(href), "javascript:")

Internals(u, anchors) ==
    Cardinality({ i \in 1..Len(anchors) :
        ~Skipped(anchors[i]) /\ JoinedNetloc(u, anchors[i]) = Netloc(u) })

Externals(u, anchors) ==
    Cardinality({ i \in 1..Len(anchors) :
        ~Skipped(anchors[i]) /\ JoinedNetloc(u, anchors[i]) # Netloc(u) })

InternalPoints(n) == IF 2 <= n /\ n <= 15 THEN 2 ELSE IF n \in {1, 16, 17} THEN 1 ELSE 0

ExternalPoints(n) == IF 1 <= n /\ n <= 5 THEN 2 ELSE IF n > 0 THEN 1 ELSE 0

LinkSample == 15

\* a_tags[:15]
check_sample(anchors) == SubSeq(anchors, 1, Min2(LinkSample, Len(anchors)))

BrokenCount(anchors, n) ==
    Cardinality({ i \in 1..Len(check_sample(anchors)) : Broken(n.head[anchors[i]]) })

BrokenPoints(broken) == IF broken = 0 THEN 2 ELSE IF broken = 1 THEN 1 ELSE 0

score_url_links_pillar(u, d, kw, n) ==
    LET lP == UrlLengthPoints(UrlChars(u))
        kP == IF 1 <= KeywordsInUrl(u, kw) /\ KeywordsInUrl(u, kw) <= 2 THEN 1 ELSE 0
        cP == IF ~IsNone(d.canonical) /\ Val(d.canonical) # "" THEN 1 ELSE 0
        iP == InternalPoints(Internals(u, d.anchors))
        eP == ExternalPoints(Externals(u, d.anchors))
        broken == BrokenCount(d.anchors, n)
        bP == BrokenPoints(broken)
        details == Put(Put(Put(Put(Put(Put(NoDetails,
                     "URL Length Score", Label(lP, 2)),
                     "Keywords in URL Score", Label(kP, 1)),
                     "Canonical Score", Label(cP, 1)),
                     "Internal Links Score", Label(iP, 2)),
                     "External Links Score", Label(eP, 2)),
                     "Broken Links Score", Label(bP, 2))
    IN  [score |-> Pts(lP) + Pts(kP) + Pts(cP) + Pts(iP) + Pts(eP) + Pts(bP),
         available |-> Pts(10),
         details |-> details,
         broken |-> broken]

-----------------------------------------------------------------------------
(* score_performance_pillar                                                *)

\* get_pagespeed_metrics(url, psi_key) if psi_key else None
PsiMetrics(key, n) == IF key # "" THEN n.psi ELSE Nothing

\* measured mode: LCP (ms), max 6
LcpPoints(lcp) ==
    IF ~IsNone(lcp)
    THEN (IF Val(lcp) <= 2500 THEN 6 ELSE IF Val(lcp) <= 3000 THEN 4 ELSE 0)
    ELSE 0

\* fid_est = max(0, min(300, tbt * 0.5)), doubled to stay integral
FidEst2(tbt) == Max2(0, Min2(600, tbt))

FidPoints(tbt) ==
    IF ~IsNone(tbt) /\ FidEst2(Val(tbt)) <= 200 THEN 5
    ELSE IF ~IsNone(tbt) /\ FidEst2(Val(tbt)) <= 400 THEN 3
    ELSE 0

\* round(fid_est, 0) if fid_est is not None else "N/A": halves go to the even
\* neighbour
FidShown(tbt) ==
    IF IsNone(tbt) THEN "N/A"
    ELSE LET h == FidEst2(Val(tbt))
             q == h \div 2
         IN  Some(IF h % 2 = 0 \/ q % 2 = 0 THEN q ELSE q + 1)

\* CLS in thousandths
ClsPoints(cls) ==
    IF ~IsNone(cls) /\ Val(cls) <= 100 THEN 5
    ELSE IF ~IsNone(cls) /\ Val(cls) <= 250 THEN 3
    ELSE 0

LoadPoints(interactive) ==
    IF Val(interactive) <= 3000 THEN 6 ELSE IF Val(interactive) <= 4000 THEN 3 ELSE 0

MeasuredPerformance(psi) ==
    LET lP == LcpPoints(psi.lcp)
        fP == FidPoints(psi.tbt)
        cP == ClsPoints(psi.cls)
        has == ~IsNone(psi.interactive)
        tP == IF has THEN LoadPoints(psi.interactive) ELSE 0
        details == Put(Put(Put(Put(Put(Put(Put(NoDetails,
                     "LCP (s)", psi.lcp),
                     "CLS", psi.cls),
                     "FID (est. ms)", FidShown(psi.tbt)),
                     "LCP Score", Label(lP, 6)),
                     "FID Score", Label(fP, 5)),
                     "CLS Score", Label(cP, 5)),
                     "Load Time Score",
                     IF has THEN Label(tP, 6) ELSE "Excluded (no PSI interactive)")
    IN  [score |-> Pts(lP) + Pts(fP) + Pts(cP) + Pts(tP),
         available |-> IF has THEN Pts(30) ELSE Pts(30) - Pts(6),
         details |-> details]

HasSrc(img) == img.src # ""

\* the sampled images whose HEAD probe gave a content-length
Sized(imgs, limit, n) ==
    { i \in 1..Min2(limit, Len(imgs)) : HasSrc(imgs[i]) /\ ~IsNone(n.img[imgs[i].src]) }

RECURSIVE SumKb(_, _, _)
SumKb(imgs, idx, n) ==
    IF idx = {} THEN 0
    ELSE LET i == CHOOSE x \in idx : TRUE
         IN  Val(n.img[imgs[i].src]) + SumKb(imgs, idx \ {i}, n)

ImageSample == 8
MediaSample == 15

total_img_kb(imgs, n) == SumKb(imgs, Sized(imgs, ImageSample, n), n)

\* an image-weight heuristic that awards the whole six points of its label
LcpHeuristicFull(kb) == IF kb <= 300 THEN 6 ELSE IF kb <= 600 THEN 3 ELSE 0

LcpHeuristic(kb) == IF kb <= 300 THEN 4 ELSE IF kb <= 600 THEN 2 ELSE 0

\* the text length of the scripts without src that are in the Document
inline_bytes(d) == SumBytes(SelectSeq(find_all(d, "script"), LAMBDA e : ~e.src))

FidHeuristic(bytes) == IF bytes <= 20000 THEN 4 ELSE IF bytes <= 50000 THEN 2 ELSE 0

imgs_no_dim(imgs) == Cardinality({ i \in 1..Len(imgs) : ~imgs[i].dims })

ClsHeuristic(n) == IF n = 0 THEN 4 ELSE IF n <= 2 THEN 2 ELSE 0

ext_count(d) == Len(SelectSeq(find_all(d, "script"), LAMBDA e : e.src)) + Len(d.css)

LoadHeuristic(n) == IF n <= 10 THEN 4 ELSE IF n <= 18 THEN 2 ELSE 0

large_imgs(imgs, n) ==
    Cardinality({ i \in Sized(imgs, MediaSample, n) : Val(n.img[imgs[i].src]) > 150 })

webp_avif(imgs) ==
    Cardinality({ i \in 1..Min2(MediaSample, Len(imgs)) :
        HasSrc(imgs[i]) /\ (EndsWith(Lower(imgs[i].src), ".webp")
                            \/ EndsWith(Lower(imgs[i].src), ".avif")) })

media_score(large, modern) ==
    (IF large = 0 THEN 4 ELSE IF large <= 2 THEN 2 ELSE 0)
    + (IF modern >= 2 THEN 4 ELSE IF modern = 1 THEN 2 ELSE 0)

HeuristicPerformance(d, n) ==
    LET lP == LcpHeuristic(total_img_kb(d.imgs, n))
        fP == FidHeuristic(inline_bytes(d))
        cP == ClsHeuristic(imgs_no_dim(d.imgs))
        tP == LoadHeuristic(ext_count(d))
        mP == media_score(large_imgs(d.imgs, n), webp_avif(d.imgs))
        details == Put(Put(Put(Put(Put(Put(NoDetails,
                     "Performance Mode", "Heuristic (no PSI key)"),
                     "LCP Heuristic Score", Label(lP, 6)),
                     "FID Heuristic Score", Label(fP, 5)),
                     "CLS Heuristic Score", Label(cP, 5)),
                     "Load Time Heuristic Score", Label(tP, 6)),
                     "Media Heuristic Score", Label(mP, 8))
    IN  [score |-> Pts(lP) + Pts(fP) + Pts(cP) + Pts(tP) + Pts(Min2(mP, 8)),
         available |-> Pts(30),
         details |-> details]

score_performance_pillar(u, d, key, n) ==
    LET psi == PsiMetrics(key, n)
    IN  IF ~IsNone(psi) THEN MeasuredPerformance(Val(psi)) ELSE HeuristicPerformance(d, n)

-----------------------------------------------------------------------------
(* score_mobile_pillar                                                     *)

ViewportPoints(vp) ==
    LET c == IF IsNone(vp) THEN "" ELSE Lower(Val(vp))
    IN  IF ~IsNone(vp) /\ Contains(c, "width=device-width") /\ Contains(c, "initial-scale=1") THEN 4
        ELSE IF ~IsNone(vp) /\ (Contains(c, "width=device-width") \/ Contains(c, "initial-scale=1")) THEN 2
        ELSE 0

CssSample == 3

\* css_links[:3]
css_sample(d) == SubSeq(d.css, 1, Min2(CssSample, Len(d.css)))

media_found(d, n) ==
    \E i \in 1..Len(css_sample(d)) : n.css[d.css[i]].ok /\ n.css[d.css[i]].media

css_16(d, n) ==
    \E i \in 1..Len(css_sample(d)) : n.css[d.css[i]].ok /\ n.css[d.css[i]].font16

\* lines 840-845: three points are added for three or more probable calls to
\* action and nothing otherwise; the label of the other branch reads "1 / 5"
TapTargetPoints(ctas) == IF ctas >= 3 THEN 3 ELSE 0
TapTargetShown(ctas) == IF ctas >= 3 THEN 3 ELSE 1

\* the spacing pattern anywhere in str(soup)
spacing_hint(d) ==
    d.inline_spacing \/ \E i \in 1..Len(d.strip) : d.strip[i].tag = "style" /\ d.strip[i].spacing

\* lines 851-856: nothing is added without a hint; the label reads "1 / 4"
TapSpacingPoints(hint) == IF hint THEN 3 ELSE 0
TapSpacingShown(hint) == IF hint THEN 3 ELSE 1

base16(d) == Contains(Lower(RemoveAll(d.body_style, " ")), "font-size:16px")

\* lines 872-877: nothing is added when no 16px base is found; the label reads
\* "2 / 5"
FontPoints(ok) == IF ok THEN 4 ELSE 0
FontShown(ok) == IF ok THEN 4 ELSE 2

PopupPoints(has_popup) == IF ~has_popup THEN 6 ELSE 3

score_mobile_pillar(u, d, n) ==
    LET vP == ViewportPoints(d.viewport)
        rP == IF media_found(d, n) THEN 6 ELSE 0
        tP == TapTargetPoints(d.ctas)
        sP == TapSpacingPoints(spacing_hint(d))
        fP == FontPoints(base16(d) \/ css_16(d, n))
        pP == PopupPoints(d.popup)
        details == Put(Put(Put(Put(Put(Put(NoDetails,
                     "Viewport Score", Label(vP, 4)),
                     "Responsive Score", Label(rP, 6)),
                     "Tap Target Size Score", Label(TapTargetShown(d.ctas), 5)),
                     "Tap Spacing Score", Label(TapSpacingShown(spacing_hint(d)), 4)),
                     "Font Size Score", Label(FontShown(base16(d) \/ css_16(d, n)), 5)),
                     "Popup Score", Label(pP, 6))
    IN  [score |-> Pts(vP) + Pts(rP) + Pts(tP) + Pts(sP) + Pts(fP) + Pts(pP),
         available |-> Pts(30),
         details |-> details]

-----------------------------------------------------------------------------
(* The aggregation of run_audit.                                           *)

Weights == << 20, 10, 10, 30, 30 >>

\* a common denominator of the available maxima the scorers return, so that
\* (s / avail) * weight is carried exactly as norm / NormScale
NormScale == 16 * 3 * 5 * 17

\* a normalisation against a maximum of ten points whatever the pillar
NormOfTen(s, avail, weight) ==
    IF avail <= 0 THEN 0 ELSE (s * weight * NormScale) \div Pts(10)

Norm(s, avail, weight) == IF avail <= 0 THEN 0 ELSE (s * weight * NormScale) \div avail

RECURSIVE SumNorm(_, _)
SumNorm(ps, i) ==
    IF i > Len(ps) THEN 0
    ELSE Norm(ps[i].score, ps[i].available, Weights[i]) + SumNorm(ps, i + 1)

RECURSIVE SumSeq(_)
SumSeq(q) == IF q = << >> THEN 0 ELSE Head(q) + SumSeq(Tail(q))

\* lines 924-945: the tuple (ctype, pillar_outputs, total_weighted,
\* total_possible); norm and total_weighted in units of 1 / NormScale
Aggregate(ct, ps) ==
    << ct,
       [i \in 1..Len(ps) |->
           [score |-> ps[i].score, available |-> ps[i].available,
            norm |-> Norm(ps[i].score, ps[i].available, Weights[i]),
            weight |-> Weights[i], details |-> ps[i].details]],
       SumNorm(ps, 1),
       SumSeq(Weights) >>

-----------------------------------------------------------------------------
(* The pages, form inputs and network answers the runs are checked on.     *)

RECURSIVE Pad(_)
\* a filler of n characters
Pad(n) == IF n = 0 THEN "" ELSE IF n = 1 THEN "x" ELSE Pad(n \div 2) \o Pad(n - n \div 2)

Img(src, alt, dims) == [src |-> src, alt |-> alt, dims |-> dims]

BlogLd == LdScript(TRUE, << JItem(TRUE, << "BlogPosting" >>) >>)
ArticleLd == LdScript(TRUE, << JItem(TRUE, << "Article" >>) >>)
ProductLd == LdScript(TRUE, << JItem(TRUE, << "Product" >>) >>)
FaqLd == LdScript(TRUE, << JItem(TRUE, << "FAQPage" >>) >>)
OrgLd == LdScript(TRUE, << JItem(TRUE, << "Organization" >>) >>)
NewsLd == LdScript(TRUE, << JItem(TRUE, << "NewsArticle" >>) >>)
\* a JSON list holding a non-dict and a dict whose @type is a list
ListLd == LdScript(TRUE, << JItem(FALSE, << >>), JItem(TRUE, << "WebPage", "Article" >>) >>)
BadLd == LdScript(FALSE, << >>)

GardenText ==
    [wc |-> 1800, sentences |-> 120, syllables |-> 2520, kwOcc |-> 27,
     intro |-> "The best Garden Tools for spring",
     head |-> "The best Garden Tools for spring",
     phrases |-> {"soil", "rake"}]

\* the page of the end-to-end scenario: title "Best Garden Tools 2024", a meta
\* description of 155 characters, one h1, five h2, 1800 words, the keyword 27
\* times, JSON-LD BlogPosting
GardenDoc ==
    [blank |-> FALSE,
     title |-> "Best Garden Tools 2024",
     meta_desc |-> Some("Garden tools " \o Pad(142)),
     viewport |-> Some("width=device-width, initial-scale=1"),
     h1 |-> << "Garden Tools" >>,
     h2h3 |-> << "Choosing garden tools", "Spades", "Rakes", "Hoes", "Care" >>,
     h4 |-> 0,
     article |-> FALSE,
     strip |-> << BlogLd, JsInline(1200), JsExternal, StyleElem(TRUE),
                  Boiler("nav", 30), Boiler("footer", 20) >>,
     imgs |-> << Img("/hero.webp", TRUE, TRUE), Img("/rake.jpg", TRUE, FALSE) >>,
     anchors |-> << "#top", "/about", "/spades", "https://other.org/soil" >>,
     canonical |-> Some("https://x.co/garden-tools"),
     css |-> << "/main.css" >>,
     ctas |-> 3,
     inline_spacing |-> FALSE,
     body_style |-> "",
     popup |-> FALSE,
     main |-> GardenText]

\* a response body of length 0
BlankDoc ==
    [GardenDoc EXCEPT !.blank = TRUE, !.title = "", !.meta_desc = Nothing,
        !.viewport = Nothing, !.h1 = << >>, !.h2h3 = << >>, !.strip = << >>,
        !.imgs = << >>, !.anchors = << >>, !.canonical = Nothing, !.css = << >>,
        !.ctas = 0,
        !.main = [wc |-> 0, sentences |-> 0, syllables |-> 0, kwOcc |-> 0,
                  intro |-> "", head |-> "", phrases |-> {}]]

\* a bare page: no head data, no structured data, nothing to strip
PlainDoc ==
    [BlankDoc EXCEPT !.blank = FALSE, !.title = "Shop",
        !.h1 = << "Welcome", "Offers" >>,
        !.anchors = << "javascript:void(0)" >>,
        !.body_style = "font-size: 16px", !.popup = TRUE,
        !.main = [wc |-> 450, sentences |-> 15, syllables |-> 900, kwOcc |-> 0,
                  intro |-> "welcome to our shop", head |-> "welcome to our shop",
                  phrases |-> {"get a quote"}]]

WithLd(d, ld) == [d EXCEPT !.strip = << ld >> \o SelectSeq(d.strip, LAMBDA e : ~e.ld)]
WithoutLd(d) == [d EXCEPT !.strip = SelectSeq(d.strip, LAMBDA e : ~e.ld)]

\* the scenario page grown to a long guide: 2300 words, six h2/h3
LongDoc ==
    [GardenDoc EXCEPT !.h2h3 = @ \o << "Storage" >>,
        !.main = [GardenText EXCEPT !.wc = 2300, !.sentences = 150, !.syllables = 3220]]

\* a page of seventeen anchors, two more than the broken-link sample
LinksDoc ==
    [PlainDoc EXCEPT !.title = "Links",
        !.anchors = << "/a", "/b", "/c", "/d", "/e", "/f", "/g", "/h", "/i", "/j",
                       "/k", "/l", "/m", "/n", "/o", "/p", "/q" >>]

\* the scenario page tuned for speed and for small screens: two images in a
\* modern format with their dimensions, padding in its markup
TunedDoc ==
    [GardenDoc EXCEPT !.title = "Garden Tools, tuned",
        !.imgs = << Img("/hero.webp", TRUE, TRUE), Img("/rake.avif", TRUE, TRUE) >>,
        !.inline_spacing = TRUE]

AuditPages ==
    { GardenDoc, TunedDoc, WithLd(GardenDoc, ProductLd), WithLd(GardenDoc, NewsLd),
      [WithoutLd(GardenDoc) EXCEPT !.article = TRUE],
      LongDoc, PlainDoc, LinksDoc, BlankDoc }

AuditUrls ==
    { "", "x.co/garden-tools",
      "https://x.co/", "https://x.co/garden-tools-guide-for-beginners",
      "http://x.co/blog/garden-tools" }

Keywords == { "", " Garden Tools " }
LsiInputs == { "", "soil, ,Rake,hoe" }
OriginalityInputs == { "", "abc", " 97 " }
PsiKeys == { "", "psi-key" }
ScraperKeys == { "", "scraper-key" }
GetOutcomes == { "200", "500", "exc" }

Range(q) == { q[i] : i \in 1..Len(q) }

Psi(lcp, cls, tbt, interactive) ==
    [lcp |-> lcp, cls |-> cls, tbt |-> tbt, interactive |-> interactive]

\* the metrics the external service may return
PsiFast == Some(Psi(Some(2000), Some(50), Some(100), Some(2500)))
PsiSlow == Some(Psi(Some(2800), Some(200), Some(300), Some(3500)))
PsiPartial == Some(Psi(Some(2000), Some(50), Some(100), Nothing))
PsiOutcomes == { Nothing, PsiFast, PsiPartial }

\* a network on which every probe succeeds (a javascript: href has no
\* connection adapter, so its probe raises) / on which every probe fails
Healthy(d) ==
    [head |-> [h \in Range(d.anchors) |->
                 IF StartsWith(Lower(h), "javascript:") THEN "exc" ELSE "ok"],
     img |-> [x \in { d.imgs[i].src : i \in 1..Len(d.imgs) } |-> Some(100)],
     css |-> [c \in Range(d.css) |-> [ok |-> TRUE, media |-> TRUE, font16 |-> TRUE]]]

Failing(d) ==
    [head |-> [h \in Range(d.anchors) |-> IF StartsWith(h, "/") THEN "404" ELSE "exc"],
     img |-> [x \in { d.imgs[i].src : i \in 1..Len(d.imgs) } |-> Nothing],
     css |-> [c \in Range(d.css) |-> [ok |-> FALSE, media |-> TRUE, font16 |-> TRUE]]]

Probes(d) == { Healthy(d), Failing(d) }

\* every probe of the page answers on its own: a HEAD of an anchor succeeds,
\* answers 404 or raises; a HEAD of an image gives a content-length or not; a
\* stylesheet GET succeeds or not
Independent(d) ==
    { [head |-> h, img |-> g, css |-> c] :
        h \in [Range(d.anchors) -> {"ok", "404", "exc"}],
        g \in [{ d.imgs[i].src : i \in 1..Len(d.imgs) } -> {Some(100), Nothing}],
        c \in [Range(d.css) -> { [ok |-> TRUE, media |-> TRUE, font16 |-> TRUE],
                                 [ok |-> FALSE, media |-> TRUE, font16 |-> TRUE] }] }

\* only the HEAD of the k-th anchor fails
OneFails(d, k) ==
    [Healthy(d) EXCEPT !.head = [h \in Range(d.anchors) |->
                                    IF h = d.anchors[k] THEN "404" ELSE "ok"]]

\* the URL on which the probes answer independently
ProbeUrl == "https://x.co/garden-tools-guide-for-beginners"

ProbePatterns(u, d, direct) ==
    IF d = GardenDoc /\ u = ProbeUrl /\ direct = "200" THEN Independent(d)
    ELSE IF d = LinksDoc
         THEN Probes(d) \cup { OneFails(d, k) : k \in (LinkSample - 1)..Len(d.anchors) }
    ELSE Probes(d)

Net(direct, proxy, probes, psi) ==
    [direct |-> direct, proxy |-> proxy, head |-> probes.head, img |-> probes.img,
     css |-> probes.css, psi |-> psi]

-----------------------------------------------------------------------------
(* One audit: the presentation flow (lines 962-971) and run_audit, one      *)
(* action per statement group.                                             *)

Unset == << >>

\* a fetch that tries the proxy after a failed direct GET whatever the key
FetchAlwaysFallback(key, n, pg) ==
    IF n.direct = "200" THEN [gets |-> << "direct" >>, html |-> Some(pg)]
    ELSE [gets |-> << "direct", "proxy" >>,
          html |-> IF n.proxy = "200" THEN Some(pg) ELSE Nothing]

\* fetch_html(url): the GETs it issues and what it returns
fetch_html(key, n, pg) ==
    IF n.direct = "200" THEN [gets |-> << "direct" >>, html |-> Some(pg)]
    ELSE IF key # ""
         THEN [gets |-> << "direct", "proxy" >>,
               html |-> IF n.proxy = "200" THEN Some(pg) ELSE Nothing]
         ELSE [gets |-> << "direct" >>, html |-> Nothing]

\* Python truth of fetch_html's return value: None and "" are false
Truthy(h) == ~IsNone(h) /\ ~Val(h).blank

\* line 963: the form's URL check
ValidUrl(u) == u # "" /\ (StartsWith(u, "http://") \/ StartsWith(u, "https://"))

\* lines 910-915: the originality percentage, None when the field is empty or
\* float() raises; raised tells whether an exception leaves the block
ConvertOriginality(input) ==
    IF Strip(input) # ""
    THEN [raised |-> FALSE, value |-> ParseFloat(Strip(input))]
    ELSE [raised |-> FALSE, value |-> Nothing]

\* line 909
ConvertLsi(csv) == StripTerms(Split(csv, ","))

\* line 968: "if not result" on the tuple run_audit returned
NotResult(r) == Len(r) = 0

\* The form's optional fields are combined freely on a network that answers
\* every request, and are all empty or all filled otherwise; an answer that no
\* request of the run can ask for is left at one value.  On one URL the
\* probes of the scenario page answer independently of each other.
Init ==
    /\ pc = "form"
    /\ url \in AuditUrls
    /\ page \in (IF ValidUrl(url) THEN AuditPages ELSE {GardenDoc})
    /\ \E direct \in (IF ValidUrl(url) THEN GetOutcomes ELSE {"200"}) :
         /\ scraper_api_key \in (IF direct = "200" THEN {""} ELSE ScraperKeys)
         /\ \E proxy \in (IF direct = "200" \/ scraper_api_key = ""
                           THEN {"500"} ELSE GetOutcomes) :
            \E probes \in (IF ValidUrl(url) THEN ProbePatterns(url, page, direct)
                           ELSE {Healthy(page)}) :
              \E filled \in (IF ~ValidUrl(url) THEN {"none"}
                             ELSE IF direct = "200" /\ probes = Healthy(page)
                                  THEN {"any"} ELSE {"none", "all"}) :
                 /\ primary_kw \in (IF filled = "any" THEN Keywords
                                     ELSE IF filled = "all" THEN Keywords \ {""} ELSE {""})
                 /\ lsi_csv \in (IF filled = "any" THEN LsiInputs
                                  ELSE IF filled = "all" THEN LsiInputs \ {""} ELSE {""})
                 /\ originality_pct_input \in
                        (IF filled = "any" THEN OriginalityInputs
                         ELSE IF filled = "all" THEN {" 97 "} ELSE {""})
                 /\ psi_key \in (IF filled = "any" THEN PsiKeys
                                  ELSE IF filled = "all" THEN PsiKeys \ {""} ELSE {""})
                 /\ \E psi \in (IF psi_key = "" THEN {Nothing} ELSE PsiOutcomes) :
                       net = Net(direct, proxy, probes, psi)
    /\ gets = << >>
    /\ html = Unset
    /\ soup = Unset
    /\ parsed = Unset
    /\ soup_global = Unset
    /\ text = Unset
    /\ json_ld = Unset
    /\ ctype = ""
    /\ lsi_terms = Unset
    /\ originality_pct = Unset
    /\ pillars = << >>
    /\ result = Unset
    /\ ui = ""
    /\ call = Unset
    /\ thr = Unset

form == << scraper_api_key, url, primary_kw, lsi_csv, originality_pct_input,
           psi_key, page, net >>
other == << call, thr >>

\* "if run:" with a URL the form rejects
Reject ==
    /\ pc = "form"
    /\ ~ValidUrl(url)
    /\ ui' = "Please enter a valid URL including http:// or https://"
    /\ pc' = "done"
    /\ UNCHANGED << form, other, gets, html, soup, parsed, soup_global, text, json_ld,
                    ctype, lsi_terms, originality_pct, pillars, result >>

\* line 896-898: fetch_html, and the early return of (None, None)
Fetch ==
    /\ pc = "form"
    /\ ValidUrl(url)
    /\ LET f == fetch_html(scraper_api_key, net, page)
       IN  /\ gets' = f.gets
           /\ html' = f.html
           /\ IF ~Truthy(f.html)
              THEN result' = << Nothing, Nothing >> /\ pc' = "returned"
              ELSE result' = result /\ pc' = "parse"
    /\ UNCHANGED << form, other, soup, parsed, soup_global, text, json_ld, ctype,
                    lsi_terms, originality_pct, pillars, ui >>

\* lines 900-902: the parse, and the assignment of the global
Parse ==
    /\ pc = "parse"
    /\ soup' = Val(html)
    /\ parsed' = Val(html)
    /\ soup_global' = Val(html)
    /\ pc' = "visible_text"
    /\ UNCHANGED << form, other, gets, html, text, json_ld, ctype, lsi_terms,
                    originality_pct, pillars, result, ui >>

\* line 904: soup and soup_global name the same object, which is stripped
VisibleText ==
    /\ pc = "visible_text"
    /\ LET v == visible_text(soup)
       IN  /\ soup' = v.soup
           /\ soup_global' = v.soup
           /\ text' = v.text
    /\ pc' = "json_ld"
    /\ UNCHANGED << form, other, gets, html, parsed, json_ld, ctype, lsi_terms,
                    originality_pct, pillars, result, ui >>

\* line 905
JsonLd ==
    /\ pc = "json_ld"
    /\ json_ld' = try_get_json_ld(soup)
    /\ pc' = "detect"
    /\ UNCHANGED << form, other, gets, html, soup, parsed, soup_global, text, ctype,
                    lsi_terms, originality_pct, pillars, result, ui >>

\* line 906
Detect ==
    /\ pc = "detect"
    /\ ctype' = detect_content_type(url, soup, text, json_ld)
    /\ pc' = "convert"
    /\ UNCHANGED << form, other, gets, html, soup, parsed, soup_global, text, json_ld,
                    lsi_terms, originality_pct, pillars, result, ui >>

\* lines 908-915
Convert ==
    /\ pc = "convert"
    /\ lsi_terms' = ConvertLsi(lsi_csv)
    /\ LET c == ConvertOriginality(originality_pct_input)
       IN  IF c.raised
           THEN /\ originality_pct' = originality_pct
                /\ ui' = "ValueError"
                /\ pc' = "done"
           ELSE /\ originality_pct' = c.value
                /\ ui' = ui
                /\ pc' = "p1"
    /\ UNCHANGED << form, other, gets, html, soup, parsed, soup_global, text, json_ld,
                    ctype, pillars, result >>

\* line 918
ScoreContent ==
    /\ pc = "p1"
    /\ pillars' = << score_content_pillar(ctype, text, primary_kw, lsi_terms,
                                          originality_pct, soup_global) >>
    /\ pc' = "p2"
    /\ UNCHANGED << form, other, gets, html, soup, parsed, soup_global, text, json_ld,
                    ctype, lsi_terms, originality_pct, result, ui >>

\* line 919
ScoreHtml ==
    /\ pc = "p2"
    /\ pillars' = Append(pillars, score_html_pillar(soup, ctype))
    /\ pc' = "p3"
    /\ UNCHANGED << form, other, gets, html, soup, parsed, soup_global, text, json_ld,
                    ctype, lsi_terms, originality_pct, result, ui >>

\* line 920
ScoreUrlLinks ==
    /\ pc = "p3"
    /\ pillars' = Append(pillars, score_url_links_pillar(url, soup, primary_kw, net))
    /\ pc' = "p4"
    /\ UNCHANGED << form, other, gets, html, soup, parsed, soup_global, text, json_ld,
                    ctype, lsi_terms, originality_pct, result, ui >>

\* line 921
ScorePerformance ==
    /\ pc = "p4"
    /\ pillars' = Append(pillars, score_performance_pillar(url, soup, psi_key, net))
    /\ pc' = "p5"
    /\ UNCHANGED << form, other, gets, html, soup, parsed, soup_global, text, json_ld,
                    ctype, lsi_terms, originality_pct, result, ui >>

\* line 922
ScoreMobile ==
    /\ pc = "p5"
    /\ pillars' = Append(pillars, score_mobile_pillar(url, soup, net))
    /\ pc' = "aggregate"
    /\ UNCHANGED << form, other, gets, html, soup, parsed, soup_global, text, json_ld,
                    ctype, lsi_terms, originality_pct, result, ui >>

\* lines 924-945
Return ==
    /\ pc = "aggregate"
    /\ result' = Aggregate(ctype, pillars)
    /\ pc' = "returned"
    /\ UNCHANGED << form, other, gets, html, soup, parsed, soup_global, text, json_ld,
                    ctype, lsi_terms, originality_pct, pillars, ui >>

\* lines 968-973: the error message when "not result", else the unpacking of
\* the tuple into four names (ValueError unless it has four members) and the report
Present ==
    /\ pc = "returned"
    /\ ui' = IF NotResult(result) THEN "Failed to fetch/analyze the page."
             ELSE IF Len(result) # 4 THEN "ValueError"
             ELSE "report"
    /\ pc' = "done"
    /\ UNCHANGED << form, other, gets, html, soup, parsed, soup_global, text, json_ld,
                    ctype, lsi_terms, originality_pct, pillars, result >>

Next ==
    \/ Reject \/ Fetch \/ Parse \/ VisibleText \/ JsonLd \/ Detect \/ Convert
    \/ ScoreContent \/ ScoreHtml \/ ScoreUrlLinks \/ ScorePerformance \/ ScoreMobile
    \/ Return \/ Present

Spec == Init /\ [][Next]_vars

-----------------------------------------------------------------------------
(* Direct calls of the classifier and of the five scorers, on inputs drawn  *)
(* from bounded sets.  call records the function, its arguments and what    *)
(* it returned.                                                            *)

\* word counts 0, WordStep, ..., MaxWordSteps * WordStep
WordStep == 250
MaxWordSteps == 19
WordCounts == { k * WordStep : k \in 0..MaxWordSteps }

\* numbers of h2/h3 (classifier) and of h2/h3/h4 (HTML pillar) elements
MaxHeadings == 6
\* numbers of internal and of external anchors
MaxInternal == 18
MaxExternal == 6
\* copies of each image
MaxCopies == 2

Copies(x, n) == [i \in 1..n |-> x]

\* a text of wc words with the keyword at rate occurrences per 1000 words, 15
\* words to a sentence and asw10 / 10 syllables to a word
TextWith(wc, rate, asw10, intro, head, phrases) ==
    [wc |-> wc, sentences |-> wc \div 15, syllables |-> (wc * asw10) \div 10,
     kwOcc |-> (wc * rate) \div 1000, intro |-> intro, head |-> head,
     phrases |-> phrases]

InitCall ==
    /\ pc = "ready"
    /\ call = Unset
    /\ scraper_api_key = "" /\ url = "" /\ primary_kw = "" /\ lsi_csv = ""
    /\ originality_pct_input = "" /\ psi_key = ""
    /\ page = Unset /\ net = Unset /\ gets = << >> /\ html = Unset
    /\ soup = Unset /\ parsed = Unset /\ soup_global = Unset /\ text = Unset
    /\ json_ld = Unset /\ ctype = "" /\ lsi_terms = Unset
    /\ originality_pct = Unset /\ pillars = << >> /\ result = Unset /\ ui = ""
    /\ thr = Unset

audit == << scraper_api_key, url, primary_kw, lsi_csv, originality_pct_input,
            psi_key, page, net, gets, html, soup, parsed, soup_global, text,
            json_ld, ctype, lsi_terms, originality_pct, pillars, result, ui >>

ClassifyUrls ==
    { "https://x.co/", "https://x.co/home", "https://x.co/about",
      "https://x.co/blog/rakes", "https://x.co/BLOG/rakes", "https://x.co/blog",
      "https://x.co/article-7", "https://x.co/products/rake", "https://x.co/shop/",
      "https://x.co/services", "https://x.co/faq", "https://x.co/pricing",
      "https://x.co/prices", "https://x.co/index.html", "https://services.x.co/about",
      "https://x.co/about?ref=/blog/", "https://x.co/news/floods" }

ClassifyLd ==
    { << >>, << ProductLd >>, << FaqLd >>, << BlogLd >>, << ListLd >>,
      << BadLd >>, << FaqLd, ProductLd >>, << NewsLd >> }

CallDetect ==
    /\ pc = "ready"
    /\ \E u \in ClassifyUrls, ld \in ClassifyLd, art \in BOOLEAN,
          wc \in { w \in WordCounts : w >= 1750 /\ w <= 2250 },
          nh \in 5..MaxHeadings,
          head \in { "Our garden Solutions", "The best garden tools" },
          quote \in BOOLEAN :
       \E h1n \in (IF quote THEN 0..2 ELSE {1}) :
         LET d == [GardenDoc EXCEPT !.strip = ld, !.article = art,
                      !.h1 = Copies("Garden Tools", h1n),
                      !.h2h3 = Copies("Section", nh)]
             t == TextWith(wc, 15, 14, head, head,
                           IF quote THEN {"get a quote"} ELSE {})
             jl == try_get_json_ld(d)
         IN  call' = [fn |-> "detect_content_type", url |-> u, soup |-> d,
                      text |-> t, json_ld |-> jl,
                      ret |-> detect_content_type(u, d, t, jl)]
    /\ pc' = "called"
    /\ UNCHANGED << audit, thr >>

SpecClassify == InitCall /\ [][CallDetect]_vars

AnyType == ContentTypes \cup {"Glossary"}

OriginalityValues == { Nothing, Some(80), Some(90), Some(97) }
TermLists == { << >>, << "soil", " Rake ", "hoe", " " >> }

\* the word counts at and next to the ends of a content type's ideal range
\* and of the 15% band around it
EdgeCounts(ct) ==
    LET low == ideal_wc(ct)[1]
        high == ideal_wc(ct)[2]
    IN  UNION { {b - 1, b, b + 1} :
                b \in {low, high, (85 * low) \div 100, (115 * high) \div 100} }

\* the word count is swept for every content type on one text; the keyword
\* rate, the syllables per word, the keyword and the related terms are
\* combined on a short and on a long text
CallContent ==
    /\ pc = "ready"
    /\ \E ct \in AnyType, orig \in OriginalityValues, sweep \in BOOLEAN :
        \E wc \in (IF sweep THEN WordCounts \cup EdgeCounts(ct)
                   ELSE {3 * WordStep, 6 * WordStep}),
           rate \in (IF sweep THEN {15} ELSE {0, 15, 40}),
           asw10 \in (IF sweep THEN {13} ELSE {13, 17}),
           kw \in (IF sweep THEN Keywords \ {""} ELSE Keywords),
           terms \in (IF sweep THEN TermLists \ {<< >>} ELSE TermLists) :
         LET t == TextWith(wc, rate, asw10, GardenText.intro, GardenText.head,
                           {"soil", "rake", "hoe"})
         IN  call' = [fn |-> "score_content_pillar", content_type |-> ct, text |-> t,
                      primary_kw |-> kw, lsi_terms |-> terms, originality_pct |-> orig,
                      soup_global |-> GardenDoc,
                      ret |-> score_content_pillar(ct, t, kw, terms, orig, GardenDoc)]
    /\ pc' = "called"
    /\ UNCHANGED << audit, thr >>

HtmlTitles == { "", "Tools 24!", "Best Garden Tools 2024", Pad(63), Pad(70) }
HtmlMetas == { Nothing, Some(Pad(145)), Some(Pad(155)), Some(Pad(175)) }
HtmlImgs ==
    { << >>, << Img("/a.jpg", TRUE, TRUE), Img("/b.jpg", FALSE, TRUE) >>,
      Copies(Img("/a.jpg", TRUE, TRUE), 4) \o << Img("/b.jpg", FALSE, TRUE) >> }

\* the head data is varied on a blog post, the headings and the structured
\* data for every content type
CallHtml ==
    /\ pc = "ready"
    /\ \E ct \in AnyType, wide \in BOOLEAN :
        \E title \in (IF wide THEN HtmlTitles ELSE {GardenDoc.title}),
           meta \in (IF wide THEN HtmlMetas ELSE {GardenDoc.meta_desc}),
           imgs \in (IF wide THEN HtmlImgs ELSE {GardenDoc.imgs}),
           h1n \in 0..2,
           nh \in (IF wide THEN {2} ELSE 0..MaxHeadings),
           ld \in (IF wide THEN {<< BlogLd >>} ELSE ClassifyLd \cup {<< OrgLd >>}) :
         LET d == [GardenDoc EXCEPT !.title = title, !.meta_desc = meta,
                      !.imgs = imgs, !.h1 = Copies("Garden Tools", h1n),
                      !.h2h3 = Copies("Section", nh \div 2),
                      !.h4 = nh - (nh \div 2), !.strip = ld]
         IN  /\ wide => ct = "Blog Post"
             /\ call' = [fn |-> "score_html_pillar", soup |-> d, content_type |-> ct,
                         ret |-> score_html_pillar(d, ct)]
    /\ pc' = "called"
    /\ UNCHANGED << audit, thr >>

LinkUrls ==
    { "https://x.co/", "https://x.co/garden-tools-guide-2024",
      "http://x.co/garden-tools-guide-for-beginners",
      "https://x.co/garden/tools/rakes/" \o Pad(42),
      "https://x.co/" \o Pad(70) }

HeadOutcomes == { "ok", "404", "exc" }

\* internal anchors first, then external ones.  Either the URL, the keyword
\* and the canonical link are varied, or the number of internal anchors, or
\* the number of external anchors, the last two with every answer to the probes
CallUrlLinks ==
    /\ pc = "ready"
    /\ \E vary \in {"url", "internal", "external"} :
        \E u \in (IF vary = "url" THEN LinkUrls ELSE {"https://x.co/garden-tools-guide-2024"}),
           kw \in (IF vary = "url" THEN Keywords \cup {"rakes and tools for the garden"}
                   ELSE {" Garden Tools "}),
           canonical \in (IF vary = "url"
                          THEN { Nothing, Some(""), Some("https://x.co/garden") }
                          ELSE { Some("https://x.co/garden") }),
           hin \in (IF vary = "url" THEN {"ok"} ELSE HeadOutcomes),
           hout \in (IF vary = "url" THEN {"ok"} ELSE HeadOutcomes),
           ni \in (IF vary = "internal" THEN 0..MaxInternal ELSE {2}),
           ne \in (IF vary = "external" THEN 0..MaxExternal ELSE {1}) :
         LET d == [GardenDoc EXCEPT !.canonical = canonical,
                      !.anchors = << "#top" >> \o Copies("/about", ni)
                                  \o Copies("https://other.org/soil", ne)]
             n == [head |-> [h \in Range(d.anchors) |->
                              IF h = "/about" THEN hin
                              ELSE IF h = "#top" THEN "ok" ELSE hout]]
         IN  call' = [fn |-> "score_url_links_pillar", url |-> u, soup |-> d,
                      primary_kw |-> kw, net |-> n,
                      ret |-> score_url_links_pillar(u, d, kw, n)]
    /\ pc' = "called"
    /\ UNCHANGED << audit, thr >>

PsiLcp == { Nothing, Some(2000), Some(2800), Some(4000) }
PsiCls == { Nothing, Some(50), Some(200), Some(400) }
PsiTbt == { Nothing, Some(100), Some(300), Some(900) }
PsiInteractive == { Nothing, Some(2500), Some(3500), Some(5000) }

\* measured mode: a metrics key and an answer of the service
CallPerformanceMeasured ==
    /\ pc = "ready"
    /\ \E lcp \in PsiLcp, cls \in PsiCls, tbt \in PsiTbt, inter \in PsiInteractive :
         LET n == [psi |-> Some(Psi(lcp, cls, tbt, inter)),
                   img |-> Healthy(GardenDoc).img]
         IN  call' = [fn |-> "score_performance_pillar", url |-> "https://x.co/",
                      soup |-> GardenDoc, psi_key |-> "psi-key", net |-> n,
                      ret |-> score_performance_pillar("https://x.co/", GardenDoc,
                                                       "psi-key", n)]
    /\ pc' = "called"
    /\ UNCHANGED << audit, thr >>

ImgSizes == { Nothing, Some(100), Some(200), Some(400) }

\* heuristic mode: no key, or a key and a metrics call that failed.  Either
\* the images and their sizes are varied, or the scripts and stylesheets
CallPerformanceHeuristic ==
    /\ pc = "ready"
    /\ \E key \in PsiKeys, images \in BOOLEAN :
        \E na \in (IF images THEN 0..MaxCopies ELSE {1}),
           nb \in (IF images THEN 0..MaxCopies ELSE {1}),
           sa \in (IF images THEN ImgSizes ELSE {Some(100)}),
           sb \in (IF images THEN ImgSizes ELSE {Some(100)}),
           dims \in BOOLEAN,
           bytes \in (IF images THEN {0} ELSE {0, 30000, 60000}),
           ext \in (IF images THEN {0} ELSE {0, 11, 19}) :
         LET d == [GardenDoc EXCEPT
                      !.imgs = Copies(Img("/a.WEBP", TRUE, dims), na)
                               \o Copies(Img("/b.jpg", TRUE, TRUE), nb)
                               \o << Img("", TRUE, TRUE) >>,
                      !.css = << >>,
                      !.strip = << JsInline(bytes) >> \o Copies(JsExternal, ext)]
             n == [psi |-> Nothing,
                   img |-> [x \in {"/a.WEBP", "/b.jpg"} |->
                              IF x = "/a.WEBP" THEN sa ELSE sb]]
         IN  call' = [fn |-> "score_performance_pillar", url |-> "https://x.co/",
                      soup |-> d, psi_key |-> key, net |-> n,
                      ret |-> score_performance_pillar("https://x.co/", d, key, n)]
    /\ pc' = "called"
    /\ UNCHANGED << audit, thr >>

Viewports ==
    { Nothing, Some("width=1024"), Some("width=device-width"),
      Some("Width=Device-Width, Initial-Scale=1") }

CallMobile ==
    /\ pc = "ready"
    /\ \E vp \in Viewports, ncss \in 0..1, ctas \in {2, 3}, inl \in BOOLEAN,
          sty \in BOOLEAN, body \in {"", "Font-Size: 16px"}, popup \in BOOLEAN :
        \E ok \in (IF ncss = 0 THEN {FALSE} ELSE BOOLEAN),
           media \in (IF ncss = 0 THEN {FALSE} ELSE BOOLEAN),
           font16 \in (IF ncss = 0 THEN {FALSE} ELSE BOOLEAN) :
         LET d == [GardenDoc EXCEPT !.viewport = vp, !.css = Copies("/main.css", ncss),
                      !.ctas = ctas, !.inline_spacing = inl,
                      !.strip = << StyleElem(sty) >>, !.body_style = body,
                      !.popup = popup]
             n == [css |-> [c \in {"/main.css"} |->
                              [ok |-> ok, media |-> media, font16 |-> font16]]]
         IN  call' = [fn |-> "score_mobile_pillar", url |-> "https://x.co/",
                      soup |-> d, net |-> n,
                      ret |-> score_mobile_pillar("https://x.co/", d, n)]
    /\ pc' = "called"
    /\ UNCHANGED << audit, thr >>

NextScorers ==
    \/ CallContent \/ CallHtml \/ CallUrlLinks
    \/ CallPerformanceMeasured \/ CallPerformanceHeuristic \/ CallMobile

SpecScorers == InitCall /\ [][NextScorers]_vars

-----------------------------------------------------------------------------
(* Two runs of run_audit in one process, as two threads that call the      *)
(* function of the same loaded module.  Each run has its own locals, in    *)
(* thr; the module global soup_global is the one both runs assign and      *)
(* read.  A step is one access of the global, or the local statements      *)
(* between two accesses.                                                   *)

ConcRuns == {"A", "B"}

ConcUrl == "https://x.co/guide"

\* the pages of the two runs differ in their title, so that a Document value
\* tells whose object it is
ConcPages(r) == IF r = "A" THEN {GardenDoc, LongDoc} ELSE {PlainDoc}

InitConc ==
    /\ pc = "concurrent"
    /\ thr \in { [r \in ConcRuns |->
                    [pc |-> "parse", page |-> IF r = "A" THEN pa ELSE pb,
                     kw |-> IF r = "A" THEN ka ELSE kb,
                     soup |-> Unset, text |-> Unset, ctype |-> "",
                     h1s |-> Unset, h2h3s |-> Unset, title |-> Unset,
                     meta |-> Unset, ret |-> Unset]] :
                 pa \in ConcPages("A"), pb \in ConcPages("B"),
                 ka \in Keywords, kb \in Keywords }
    /\ soup_global = Unset
    /\ call = Unset
    /\ scraper_api_key = "" /\ url = "" /\ primary_kw = "" /\ lsi_csv = ""
    /\ originality_pct_input = "" /\ psi_key = ""
    /\ page = Unset /\ net = Unset /\ gets = << >> /\ html = Unset
    /\ soup = Unset /\ parsed = Unset /\ text = Unset
    /\ json_ld = Unset /\ ctype = "" /\ lsi_terms = Unset
    /\ originality_pct = Unset /\ pillars = << >> /\ result = Unset /\ ui = ""

single == << pc, call, scraper_api_key, url, primary_kw, lsi_csv,
             originality_pct_input, psi_key, page, net, gets, html, soup, parsed,
             text, json_ld, ctype, lsi_terms, originality_pct, pillars, result, ui >>

\* line 900
ConcParse(r) ==
    /\ thr[r].pc = "parse"
    /\ thr' = [thr EXCEPT ![r].soup = thr[r].page, ![r].pc = "set_global"]
    /\ UNCHANGED << single, soup_global >>

\* line 902
ConcSetGlobal(r) ==
    /\ thr[r].pc = "set_global"
    /\ soup_global' = thr[r].soup
    /\ thr' = [thr EXCEPT ![r].pc = "prepare"]
    /\ UNCHANGED single

\* lines 904-915: visible_text strips the run's Document, which the global
\* shows when it still names that object; then the classification
ConcPrepare(r) ==
    /\ thr[r].pc = "prepare"
    /\ LET v == visible_text(thr[r].soup)
       IN  /\ thr' = [thr EXCEPT ![r].soup = v.soup, ![r].text = v.text,
                         ![r].ctype = detect_content_type(ConcUrl, v.soup, v.text,
                                                          try_get_json_ld(v.soup)),
                         ![r].pc = "read_h1"]
           /\ soup_global' = IF soup_global = thr[r].soup THEN v.soup ELSE soup_global
    /\ UNCHANGED single

\* line 245
ConcReadH1(r) ==
    /\ thr[r].pc = "read_h1"
    /\ thr' = [thr EXCEPT ![r].h1s = soup_global, ![r].pc = "read_h2h3"]
    /\ UNCHANGED << single, soup_global >>

\* line 246, and the test of line 248
ConcReadH2H3(r) ==
    /\ thr[r].pc = "read_h2h3"
    /\ thr' = [thr EXCEPT ![r].h2h3s = soup_global,
                  ![r].pc = IF Strip(thr[r].kw) # "" THEN "read_title" ELSE "finish"]
    /\ UNCHANGED << single, soup_global >>

\* line 249
ConcReadTitle(r) ==
    /\ thr[r].pc = "read_title"
    /\ thr' = [thr EXCEPT ![r].title = soup_global, ![r].pc = "read_meta"]
    /\ UNCHANGED << single, soup_global >>

\* line 251
ConcReadMeta(r) ==
    /\ thr[r].pc = "read_meta"
    /\ thr' = [thr EXCEPT ![r].meta = soup_global, ![r].pc = "finish"]
    /\ UNCHANGED << single, soup_global >>

\* the rest of score_content_pillar; without a keyword lines 249 and 251 are
\* not executed and the placement checks read nothing
ConcFinish(r) ==
    /\ thr[r].pc = "finish"
    /\ LET t == thr[r]
           has == Strip(t.kw) # ""
       IN  thr' = [thr EXCEPT
                      ![r].ret = ContentPillar(t.ctype, t.text, t.kw, << >>, Nothing,
                                               t.h1s, t.h2h3s,
                                               IF has THEN t.title ELSE t.soup,
                                               IF has THEN t.meta ELSE t.soup),
                      ![r].pc = "finished"]
    /\ UNCHANGED << single, soup_global >>

NextConc ==
    \E r \in ConcRuns :
        \/ ConcParse(r) \/ ConcSetGlobal(r) \/ ConcPrepare(r) \/ ConcReadH1(r)
        \/ ConcReadH2H3(r) \/ ConcReadTitle(r) \/ ConcReadMeta(r) \/ ConcFinish(r)

SpecConc == InitConc /\ [][NextConc]_vars

-----------------------------------------------------------------------------
(* Properties of one audit (Spec).                                         *)

\* the target page could not be fetched: the direct GET did not answer 200
\* and the proxy is not configured or did not answer 200 either
FetchFailed ==
    /\ ValidUrl(url)
    /\ net.direct # "200"
    /\ (scraper_api_key = "" \/ net.proxy # "200")

\* C1: when the direct fetch fails and the fallback is not configured or
\* fails too, the run produces no audit result and the presentation flow
\* ends in the "Failed to fetch/analyze the page." error state, without
\* unpacking the returned value.
C1_FetchFailureIsReported ==
    (pc = "done" /\ FetchFailed) =>
        /\ Len(result) # 4
        /\ ui = "Failed to fetch/analyze the page."

\* C3: in every run that returns a result, each pillar's normalized
\* contribution is at most its weight 20, 10, 10, 30, 30 and the total is at
\* most 100.
C3_NormalizedWithinWeights ==
    (pc \in {"returned", "done"} /\ Len(result) = 4) =>
        /\ \A i \in 1..5 :
              /\ result[2][i].weight = << 20, 10, 10, 30, 30 >>[i]
              /\ result[2][i].norm <= result[2][i].weight * NormScale
        /\ result[3] <= 100 * NormScale

\* a returned result in which a pillar reaches its whole weight and the
\* performance pillar was normalized against its reduced maximum
C3_Witness ==
    /\ pc = "done"
    /\ Len(result) = 4
    /\ result[2][4].available = Pts(24)
    /\ result[2][4].norm > 0
    /\ \E i \in 1..5 : result[2][i].norm = result[2][i].weight * NormScale

\* C4: the Document parsed at the start of a run is never modified: every
\* later step sees the elements the parser produced.
C4_DocumentIsImmutable == soup = parsed

\* the URL rules of the classifier (lines 110-117)
UrlRuleMatches(u0) ==
    LET u == Lower(u0)
    IN  \/ Contains(u, "/blog/") \/ Contains(u, "/article")
        \/ Contains(u, "/product") \/ Contains(u, "/shop/")
        \/ Contains(u, "/services") \/ Contains(u, "/service")
        \/ Contains(u, "/faq")
        \/ PricingMatch(u)

\* C5: in a full run, a page at a URL that matches no URL rule is classified
\* by the @type of its embedded JSON-LD: Product gives Product Page, FAQPage
\* FAQ Page, Article or BlogPosting Blog Post (when it has fewer than 2000
\* words or fewer than six h2/h3).
C5_JsonLdClassifies ==
    (pc = "done" /\ ui = "report" /\ ~UrlRuleMatches(url)
       /\ ~Contains(Lower(parsed.main.head), "solutions")) =>
        LET types == LdTypes(try_get_json_ld(parsed))
        IN  /\ InSeq("Product", types) => result[1] = "Product Page"
            /\ (~InSeq("Product", types) /\ InSeq("FAQPage", types))
                  => result[1] = "FAQ Page"
            /\ (/\ ~InSeq("Product", types) /\ ~InSeq("FAQPage", types)
                /\ (InSeq("Article", types) \/ InSeq("BlogPosting", types))
                /\ (parsed.main.wc < 2000 \/ Len(parsed.h2h3) < 6))
                  => result[1] = "Blog Post"

\* the target page was fetched: the direct GET, or the configured proxy
\* after it, answered 200
FetchSucceeded ==
    /\ ValidUrl(url)
    /\ (net.direct = "200" \/ (scraper_api_key # "" /\ net.proxy = "200"))

\* what each absent optional input leads to in a returned result
AbsentInputsScoreZero ==
    LET content == result[2][1]
        links == result[2][3]
        perf == result[2][4]
    IN  /\ Strip(primary_kw) = "" =>
              /\ content.details["Keyword Density Score"] = "0 / 3"
              /\ content.details["Keyword Placement Score"] = "0 / 5"
              /\ links.details["Keywords in URL Score"] = "0 / 1"
        /\ ConvertLsi(lsi_csv) = << >> =>
              content.details["LSI Score"] = "0 / 3"
        /\ IsNone(ConvertOriginality(originality_pct_input).value) =>
              /\ content.details["Originality Score"] = "Excluded (no % provided)"
              /\ content.available = Pts(17)
        /\ psi_key = "" => "Performance Mode" \in DOMAIN perf.details

\* C10: given a successful fetch, the run returns an audit result without
\* raising for every combination of absent optional inputs, and each absent
\* input leads only to a zero-credit or excluded sub-score.
C10_AbsentInputsNeverFail ==
    (pc = "done" /\ FetchSucceeded) =>
        /\ ui = "report"
        /\ Len(result) = 4
        /\ AbsentInputsScoreZero

\* the same, for a fetch that returned a page with a body
C10_NonEmptyBody ==
    (pc = "done" /\ FetchSucceeded /\ ~page.blank) =>
        /\ ui = "report"
        /\ Len(result) = 4
        /\ AbsentInputsScoreZero

-----------------------------------------------------------------------------
(* Properties of the scorers called directly (SpecScorers).                *)

\* C2: each of the five pillar scorers returns a raw score that is at most
\* the available maximum it returns, in both performance modes and with the
\* reduced maximum.
C2_ScoreWithinAvailable ==
    pc = "called" =>
        /\ call.fn \in {"score_content_pillar", "score_html_pillar",
                        "score_url_links_pillar", "score_performance_pillar",
                        "score_mobile_pillar"}
        /\ call.ret.score <= call.ret.available

\* a content pillar without an originality percentage that scores its whole
\* maximum
C2_Witness ==
    /\ pc = "called"
    /\ call.fn = "score_content_pillar"
    /\ IsNone(call.originality_pct)
    /\ call.ret.score = call.ret.available
    /\ call.ret.available > 0

\* the content pillar of the recorded call with another originality argument
ContentWith(originality) ==
    score_content_pillar(call.content_type, call.text, call.primary_kw,
                         call.lsi_terms, originality, call.soup_global)

\* C7: for every content type, text, keyword and related-term input, the
\* content pillar's available maximum without an originality percentage is
\* exactly 3 less than with one, and without one no originality points enter
\* the raw score.
C7_OriginalityExcluded ==
    (pc = "called" /\ call.fn = "score_content_pillar") =>
        \A v \in OriginalityValues \ {Nothing} :
            LET without == ContentWith(Nothing)
                with == ContentWith(v)
            IN  /\ without.available = with.available - Pts(3)
                /\ without.score = with.score - Pts(OriginalityPoints(Val(v)))
                /\ without.details["Originality Score"] = "Excluded (no % provided)"
                /\ IsNone(call.originality_pct) => call.ret = without

\* a call without an originality percentage whose other sub-scores earn points
C7_Witness ==
    /\ pc = "called"
    /\ call.fn = "score_content_pillar"
    /\ IsNone(call.originality_pct)
    /\ call.ret.score > 0
    /\ ContentWith(Some(100)).score = call.ret.score + Pts(3)

\* C8 as stated: the content pillar's available maximum is 18 without an
\* originality percentage and 21 with one, for every content type.
C8_Available18Or21 ==
    (pc = "called" /\ call.fn = "score_content_pillar") =>
        call.ret.available = IF IsNone(call.originality_pct) THEN Pts(18) ELSE Pts(21)

\* C8: the content pillar's available maximum is 3 + 3 + 5 + 3 + 3 = 17
\* without an originality percentage and 20 with one, for every content type.
C8_Available17Or20 ==
    (pc = "called" /\ call.fn = "score_content_pillar") =>
        call.ret.available = IF IsNone(call.originality_pct) THEN Pts(17) ELSE Pts(20)

\* a call with an originality percentage that returns 20
C8_Witness ==
    /\ pc = "called"
    /\ call.fn = "score_content_pillar"
    /\ ~IsNone(call.originality_pct)
    /\ call.ret.available = Pts(20)

-----------------------------------------------------------------------------
(* Properties of the classifier called directly (SpecClassify).            *)

\* C6: for every page and structured data, a URL containing "/blog/" is
\* classified as Blog Post, also when the structured data declares @type
\* Product: the URL rule is evaluated first and wins.
C6_BlogUrlWins ==
    (pc = "called" /\ call.fn = "detect_content_type"
       /\ Contains(call.url, "/blog/")) =>
        call.ret = "Blog Post"

\* a "/blog/" URL whose page declares @type Product
C6_Witness ==
    /\ pc = "called"
    /\ call.fn = "detect_content_type"
    /\ Contains(call.url, "/blog/")
    /\ InSeq("Product", LdTypes(call.json_ld))
    /\ call.ret = "Blog Post"

-----------------------------------------------------------------------------
(* Properties of two concurrent runs (SpecConc).                           *)

\* C9: when two runs execute concurrently in one process, under every
\* interleaving each run's keyword-placement sub-score (title, meta
\* description, h1, h2/h3 checks) is computed from the Document parsed from
\* that run's own HTML, never from the other run's.
C9_PlacementFromOwnDocument ==
    \A r \in ConcRuns :
        thr[r].pc = "finished" =>
            /\ thr[r].h1s = thr[r].soup
            /\ thr[r].h2h3s = thr[r].soup
            /\ Strip(thr[r].kw) # "" =>
                  (thr[r].title = thr[r].soup /\ thr[r].meta = thr[r].soup)
            /\ thr[r].ret.details["Keyword Placement Score"]
                  = score_content_pillar(thr[r].ctype, thr[r].text, thr[r].kw, << >>,
                        Nothing, thr[r].soup).details["Keyword Placement Score"]

-----------------------------------------------------------------------------
(* Properties of the probes of one audit (Spec).                           *)

\* the run fetched a page with a body
Fetched == pc \notin {"form"} /\ ValidUrl(url) /\ Truthy(html)

\* the anchors among the first 15 whose HEAD probe was unreachable or
\* answered a status >= 400
FailedProbes ==
    { i \in 1..Min2(15, Len(parsed.anchors)) :
        net.head[parsed.anchors[i]] \in {"404", "exc"} }

C11_BeyondSample ==
    /\ pc = "done" /\ Fetched
    /\ Len(parsed.anchors) > 15
    /\ net.head[parsed.anchors[16]] = "404"
    /\ pillars[3].broken = 0

\* the answer to a GET that fetch_html issued
Answer(g) == IF g = "direct" THEN net.direct ELSE net.proxy

-----------------------------------------------------------------------------
(* Properties of the classifier's cascade (SpecClassify).                  *)

\* "/pricing" or "/price" followed by the end of the URL or by a character
\* that is no letter, digit or underscore
PriceWord(u) ==
    \E w \in {"/pricing", "/price"}, i \in 1..Len(u) :
        /\ i + Len(w) - 1 <= Len(u)
        /\ SubSeq(u, i, i + Len(w) - 1) = w
        /\ (i + Len(w) > Len(u) \/ CharAt(u, i + Len(w)) \notin (AlnumSet \cup {"_"}))

\* the rules in the listed order, each with whether it matches the recorded
\* call and its label; price tells whether the pricing rule matches
Cascade(price) ==
    LET u == Lower(call.url)
        d == call.soup
        t == call.text
        types == LdTypes(call.json_ld)
    IN  << [m |-> Contains(u, "/blog/") \/ Contains(u, "/article"), l |-> "Blog Post"],
           [m |-> Contains(u, "/product") \/ Contains(u, "/shop/"), l |-> "Product Page"],
           [m |-> Contains(u, "/services") \/ Contains(u, "/service")
                  \/ Contains(Lower(t.head), "solutions"), l |-> "Service Page"],
           [m |-> Contains(u, "/faq"), l |-> "FAQ Page"],
           [m |-> price, l |-> "Landing Page"],
           [m |-> InSeq("Product", types), l |-> "Product Page"],
           [m |-> InSeq("FAQPage", types), l |-> "FAQ Page"],
           [m |-> InSeq("Article", types) \/ InSeq("BlogPosting", types) \/ d.article,
            l |-> IF t.wc >= 2000 /\ Len(d.h2h3) >= 6 THEN "Pillar Page" ELSE "Blog Post"],
           [m |-> t.wc >= 2200 /\ Len(d.h2h3) >= 6, l |-> "Pillar Page"],
           [m |-> Len(d.h1) = 1 /\ "get a quote" \in t.phrases, l |-> "Service Page"],
           [m |-> UrlPath(call.url) \in {"", "/", "/home", "/index.html"},
            l |-> "Home Page"],
           [m |-> TRUE, l |-> "Landing Page"] >>

\* the label of the first rule that matches
FirstMatch(rules) ==
    rules[CHOOSE i \in 1..Len(rules) : rules[i].m /\ \A j \in 1..(i - 1) : ~rules[j].m].l

\* the number of rules that match
Matching(rules) == Cardinality({ i \in 1..Len(rules) : rules[i].m })

\* C13 as stated: detect_content_type returns the label of the first rule
\* that matches in the listed order, the pricing rule being "/pricing" or
\* "/price" in the URL.
C13_FirstRuleAsListed ==
    (pc = "called" /\ call.fn = "detect_content_type") =>
        call.ret = FirstMatch(Cascade(PricingSubstring(Lower(call.url))))

\* C13: detect_content_type returns the label of the first rule that matches
\* in the listed order, the pricing rule being "/pricing" or "/price" that
\* ends at a word boundary; the URL is compared in lower case.
C13_FirstRuleWordBoundary ==
    (pc = "called" /\ call.fn = "detect_content_type") =>
        call.ret = FirstMatch(Cascade(PriceWord(Lower(call.url))))

\* a call in which the pricing rule, the structured-data rule, a heuristic
\* and the default all match, and the pricing rule wins
C13_Witness ==
    /\ pc = "called"
    /\ call.fn = "detect_content_type"
    /\ PriceWord(Lower(call.url))
    /\ InSeq("Product", LdTypes(call.json_ld))
    /\ Matching(Cascade(PriceWord(Lower(call.url)))) >= 4
    /\ call.ret = "Landing Page"

\* C14: the URL rules depend only on the path of the URL: two URLs with the
\* same path but another scheme, host or query string are classified
\* identically when the document, text and structured data are the same.
C14_UrlRulesReadPathOnly ==
    (pc = "called" /\ call.fn = "detect_content_type") =>
        \A u2 \in ClassifyUrls :
            UrlPath(u2) = UrlPath(call.url) =>
                detect_content_type(u2, call.soup, call.text, call.json_ld) = call.ret

-----------------------------------------------------------------------------
(* Properties of the structured-data sub-score of one audit (Spec).        *)

\* C15: within a full run, the HTML pillar's structured-data sub-score is 2
\* when the fetched page embeds JSON-LD whose @type is expected for the
\* detected content type, 1 when it embeds JSON-LD with some other @type, and
\* 0 only when the page embeds no structured data.
C15_SchemaScoredFromPage ==
    (pc = "done" /\ ui = "report") =>
        LET types == LdTypes(try_get_json_ld(parsed))
            expected == \E i \in 1..Len(types) : types[i] \in target_schema(result[1])
            label == result[2][2].details["Schema Score"]
        IN  /\ expected => label = "2 / 2"
            /\ (~expected /\ types # << >>) => label = "1 / 2"
            /\ label = "0 / 2" => types = << >>

-----------------------------------------------------------------------------
(* Properties of the word-count sub-score (SpecScorers).                   *)

\* C16: for every content type with ideal range [low, high] and every word
\* count wc, the word-count sub-score is 3 when low <= wc <= high, 2 when wc
\* is outside that range but 0.85*low <= wc <= 1.15*high, and 0 otherwise;
\* unknown content types use the range (600, 1500).
C16_WordCountBands ==
    (call # Unset /\ call.fn = "score_content_pillar") =>
        LET known == [ct \in ContentTypes |-> ideal_wc(ct)]
            range == IF call.content_type \in ContentTypes
                     THEN known[call.content_type] ELSE << 600, 1500 >>
            low == range[1]
            high == range[2]
            wc == call.text.wc
            label == call.ret.details["Word Count Score"]
        IN  label = (IF low <= wc /\ wc <= high THEN "3 / 3"
                     ELSE IF 85 * low <= 100 * wc /\ 100 * wc <= 115 * high
                          THEN "2 / 3"
                     ELSE "0 / 3")

-----------------------------------------------------------------------------
(* Properties of the performance pillar's details (SpecScorers).           *)

\* C17: after score_performance_pillar returns, details records the mode that
\* was used: measured when the metrics of the external service were scored,
\* heuristic when static inspection was scored (also when a key was supplied
\* and the metrics call failed).
C17_ModeRecorded ==
    (call # Unset /\ call.fn = "score_performance_pillar") =>
        LET details == call.ret.details
            measured == ~IsNone(PsiMetrics(call.psi_key, call.net))
        IN  /\ "Performance Mode" \in DOMAIN details
            /\ StartsWith(details["Performance Mode"], "Heuristic") <=> ~measured

-----------------------------------------------------------------------------
(* Properties of the mobile pillar (SpecScorers).                          *)

\* the points of a label "n / m"
Shown(label) == CHOOSE k \in 0..9 : CharAt(Digits, k + 1) = SubSeq(label, 1, 1)

\* C18: for every document and every outcome of the stylesheet fetches the
\* tap-target sub-score is 1 or 3, the tap-spacing sub-score 1 or 3, the
\* font-size sub-score 2 or 4 and the popup sub-score 3 or 6, none is ever 0,
\* and the mobile raw score lies between 7 and 26 of the fixed 30.
C18_MobileSubScoresNeverZero ==
    (call # Unset /\ call.fn = "score_mobile_pillar") =>
        LET details == call.ret.details
            tap == Shown(details["Tap Target Size Score"])
            spacing == Shown(details["Tap Spacing Score"])
            font == Shown(details["Font Size Score"])
            popup == Shown(details["Popup Score"])
            rest == Shown(details["Viewport Score"]) + Shown(details["Responsive Score"])
        IN  /\ tap \in {1, 3} /\ spacing \in {1, 3} /\ font \in {2, 4} /\ popup \in {3, 6}
            /\ call.ret.score = Pts(rest + tap + spacing + font + popup)
            /\ Pts(7) <= call.ret.score /\ call.ret.score <= Pts(26)
            /\ call.ret.available = Pts(30)

-----------------------------------------------------------------------------
(* Properties of the total of one audit (Spec).                            *)

Returned == pc = "done" /\ ui = "report"

\* C19: for every run that returns a result the total weighted score is at
\* most 90 of the reported 100: the performance pillar contributes at most 24
\* of 30 (heuristic mode at most 24/30 raw, measured mode at most 22/30 or
\* 16/24 raw) and the mobile pillar at most 26 of 30.
C19_TotalAtMost90 ==
    Returned =>
        LET perf == result[2][4]
            mobile == result[2][5]
            heuristic == "Performance Mode" \in DOMAIN perf.details
        IN  /\ result[3] <= 90 * NormScale
            /\ result[3] < result[4] * NormScale
            /\ result[4] = 100
            /\ perf.norm <= 24 * NormScale
            /\ heuristic => perf.score <= Pts(24) /\ perf.available = Pts(30)
            /\ ~heuristic => \/ perf.score <= Pts(22) /\ perf.available = Pts(30)
                             \/ perf.score <= Pts(16) /\ perf.available = Pts(24)
            /\ mobile.norm <= 26 * NormScale
            /\ mobile.score <= Pts(26) /\ mobile.available = Pts(30)

\* both pillars at their highest in one returned result
C19_Witness ==
    /\ Returned
    /\ result[2][4].norm = 24 * NormScale
    /\ result[2][5].norm = 26 * NormScale

-----------------------------------------------------------------------------
(* Properties of the set of labels (SpecClassify, Spec).                   *)

DetectedTypes ==
    {"Blog Post", "Product Page", "Service Page", "FAQ Page", "Landing Page",
     "Pillar Page", "Home Page"}

\* C20: detect_content_type returns one of the seven labels Blog Post,
\* Product Page, Service Page, FAQ Page, Landing Page, Pillar Page and Home
\* Page, and never "News Article".
C20_SevenLabels ==
    (call # Unset /\ call.fn = "detect_content_type") =>
        call.ret \in DetectedTypes /\ call.ret # "News Article"

\* a news URL with JSON-LD of type NewsArticle, classified as something else
C20_Witness ==
    /\ call # Unset /\ call.fn = "detect_content_type"
    /\ call.url = "https://x.co/news/floods"
    /\ InSeq("NewsArticle", LdTypes(call.json_ld))
    /\ call.ret = "Landing Page"

\* C20, in an audit run (Spec): the content type the scorers are given is one
\* of the seven labels, so the "News Article" rows of their tables are never
\* selected.
C20_NewsRowsNeverSelected ==
    /\ ctype \in DetectedTypes \cup {""}
    /\ (pc = "done" /\ ui = "report") => result[1] \in DetectedTypes

=============================================================================
